---- MODULE Spec2Model ----
(***************************************************************************)
(* MetaFlux browser app: the design-discovery scan of DesignsView           *)
(* (app/views/designs.js), the diagnostics log (app/main.js), the Design   *)
(* model (app/models/design.js), the STL viewer (app/utils/stl_viewer.js),  *)
(* the navigation of app/main.js, and the Papers view                      *)
(* (app/views/papers.js) with the Paper model (app/models/paper.js), as    *)
(* one state machine.  One action is one     *)
(* run-to-completion step of the single-threaded event loop: a click       *)
(* handler, or the continuation of an async function after an await.       *)
(***************************************************************************)
EXTENDS Integers, Sequences, FiniteSets, TLC

VARIABLES
    host,      \* the static file host: what a fetch of each path answers
    console,   \* the lines of consoleDiv, oldest first (time prefix left out)
    appRoot,   \* what the root container holds
    views,     \* every DesignsView constructed so far, in construction order
    viewers,   \* every STLViewer.render invocation so far, in call order
    pages      \* every other content made for the root so far: DashboardView
               \* elements, PapersView closures and the About markup

vars == <<host, console, appRoot, views, viewers, pages>>

(***************************************************************************)
(* Bounds of the model.                                                    *)
(***************************************************************************)
MaxViews == 2     \* DesignsView instances constructed in one behaviour
MaxRenders == 2   \* STLViewer.render invocations in one behaviour
MaxFrames == 2    \* display refresh signals delivered to one render loop
MaxPages == 3     \* dashboard, papers and about contents made in one behaviour
MaxLogCalls == 13 \* calls of log in a behaviour of LogSpec
LateProbes == 1   \* probes a running scan has left when Designs is pressed again
MaxQuarters == 44 \* the scores of ScoreSpec, in quarters: -11.0 to 11.0

(***************************************************************************)
(* designs.js, loadDesigns: the five sets the candidate paths are built    *)
(* from, in the order the nested loops visit them.                         *)
(***************************************************************************)
folders == << "A_3D-Printed_Metallic-Free_Water-Based_Metamateria",
              "Tunable_3D_printed_composite_metamaterials_with_ne",
              "Additively_Manufactured_Mechanical_MetamaterialBas" >>

FirstVersion == 1
LastVersion == 3

types == << "patch_antenna", "metamaterial_absorber", "split_ring_resonator" >>

periods == << 16, 20, 24, 28, 35, 42 >>

heights == << 24, 30, 36, 28, 35, 42 >>

\* folder.slice(0,8)
Slice8(s) == SubSeq(s, 1, IF Len(s) < 8 THEN Len(s) ELSE 8)

\* the template literal of line 45
CandidatePath(folder, type, v, p, h) ==
    "designs/" \o folder \o "/" \o type \o "_" \o Slice8(folder) \o "_v"
        \o ToString(v) \o "_" \o ToString(p) \o "mm_" \o ToString(h) \o "mm.json"

\* The loop variables of the five nested loops: indices into folders, types,
\* periods and heights, and the version counter v itself.
FirstPos == [f |-> 1, v |-> FirstVersion, t |-> 1, p |-> 1, h |-> 1]

PathAt(pos) ==
    CandidatePath(folders[pos.f], types[pos.t], pos.v, periods[pos.p], heights[pos.h])

\* The loops are exhausted when the outermost one has run off its array.
Exhausted(pos) == pos.f > Len(folders)

\* NextPos with the innermost loop's bound off by one: the last height is
\* never visited.
NextPosShort(pos) ==
    IF pos.h < Len(heights) - 1 THEN [pos EXCEPT !.h = @ + 1]
    ELSE IF pos.p < Len(periods) THEN [pos EXCEPT !.p = @ + 1, !.h = 1]
    ELSE IF pos.t < Len(types) THEN [pos EXCEPT !.t = @ + 1, !.p = 1, !.h = 1]
    ELSE IF pos.v < LastVersion
        THEN [pos EXCEPT !.v = @ + 1, !.t = 1, !.p = 1, !.h = 1]
    ELSE [pos EXCEPT !.f = @ + 1, !.v = FirstVersion, !.t = 1, !.p = 1, !.h = 1]

\* One step of the nested loops: the innermost loop advances first, and a loop
\* that runs off its set restarts while the loop around it advances.
NextPos(pos) ==
    IF pos.h < Len(heights) THEN [pos EXCEPT !.h = @ + 1]
    ELSE IF pos.p < Len(periods) THEN [pos EXCEPT !.p = @ + 1, !.h = 1]
    ELSE IF pos.t < Len(types) THEN [pos EXCEPT !.t = @ + 1, !.p = 1, !.h = 1]
    ELSE IF pos.v < LastVersion
        THEN [pos EXCEPT !.v = @ + 1, !.t = 1, !.p = 1, !.h = 1]
    ELSE [pos EXCEPT !.f = @ + 1, !.v = FirstVersion, !.t = 1, !.p = 1, !.h = 1]

(***************************************************************************)
(* The candidate enumeration, stated without the loops: candidate k of the *)
(* order folder, then version, then type, then period, then height.        *)
(***************************************************************************)
NumVersions == LastVersion - FirstVersion + 1

NumCandidates ==
    Len(folders) * NumVersions * Len(types) * Len(periods) * Len(heights)

CandidateAt(k) ==
    LET n == k - 1
        h == n % Len(heights)
        p == (n \div Len(heights)) % Len(periods)
        t == (n \div (Len(heights) * Len(periods))) % Len(types)
        v == (n \div (Len(heights) * Len(periods) * Len(types))) % NumVersions
        f == n \div (Len(heights) * Len(periods) * Len(types) * NumVersions)
    IN CandidatePath(folders[f + 1], types[t + 1], FirstVersion + v,
                     periods[p + 1], heights[h + 1])

Candidates == [k \in 1..NumCandidates |-> CandidateAt(k)]

CandidateSet == {Candidates[k] : k \in 1..NumCandidates}

(***************************************************************************)
(* main.js, log: append one line, then drop lines from the front while     *)
(* more than ten are left.                                                 *)
(***************************************************************************)
MaxConsoleLines == 10

\* TrimConsole with >= in place of >: nine lines are kept.
RECURSIVE TrimConsoleNine(_)
TrimConsoleNine(c) ==
    IF Len(c) >= MaxConsoleLines THEN TrimConsoleNine(Tail(c)) ELSE c

RECURSIVE TrimConsole(_)
TrimConsole(c) == IF Len(c) > MaxConsoleLines THEN TrimConsole(Tail(c)) ELSE c

Log(c, msg) == TrimConsole(Append(c, msg))

RECURSIVE LogAll(_, _)
LogAll(c, msgs) == IF msgs = <<>> THEN c ELSE LogAll(Log(c, Head(msgs)), Tail(msgs))

(***************************************************************************)
(* The static file host.  A fetch of a path is answered in one of four     *)
(* ways: the file exists (resp.ok), it does not (a non-ok response), the   *)
(* fetch is rejected (network error), or no answer ever comes.  The body   *)
(* of an existing file is a JSON object or the JSON value null, or is not  *)
(* JSON at all.  host maps the paths that are not plainly missing to their *)
(* answer; every other path is answered "notfound".                        *)
(***************************************************************************)
NoData == [paper_id |-> ""]

FullData ==
    [paper_id |-> "16348728", paper_title |-> "Patch antenna array",
     geometry_type |-> "patch_antenna", parameters |-> [period |-> 28, height |-> 28],
     file_path |-> "out/patch_antenna_16348728.json", generated_at |-> "2024-06-01",
     manufacturing_method |-> "FDM", scale |-> "1.0x"]

BareData == [paper_id |-> "0a16f0a3", geometry_type |-> "split_ring_resonator"]

NotFound == [net |-> "notfound", json |-> "none", data |-> NoData]
NetError == [net |-> "neterror", json |-> "none", data |-> NoData]
Hang == [net |-> "hang", json |-> "none", data |-> NoData]
OkObject(d) == [net |-> "ok", json |-> "object", data |-> d]
OkNull == [net |-> "ok", json |-> "null", data |-> NoData]
OkInvalid == [net |-> "ok", json |-> "invalid", data |-> NoData]
OkArray(records) == [net |-> "ok", json |-> "array", data |-> records]

Response(h, path) == IF path \in DOMAIN h THEN h[path] ELSE NotFound

(***************************************************************************)
(* The JSON types of a record.  A field carries a string, a number, an     *)
(* array or an object as the models expect it; a record of a file may name *)
(* under "mistyped" the fields whose value is of another type, and such a  *)
(* field carries the type of the value and whether JavaScript takes it for *)
(* true.  The objects the constructors make name their fields of           *)
(* unexpected type in the same way.                                        *)
(***************************************************************************)
OfType(type, truthy) == [type |-> type, truthy |-> truthy]

Mistyped(data, k) == "mistyped" \in DOMAIN data /\ k \in data["mistyped"]

\* data.k || d lets a value of unexpected type through when it is truthy.
Kept(data, k) == Mistyped(data, k) /\ data[k].truthy

\* The object with the fields of unexpected type named, when there are any.
Typed(object, odd) == IF odd = {} THEN object ELSE object @@ [mistyped |-> odd]

(***************************************************************************)
(* models/design.js.  data.k || d for a string field k: the field when it  *)
(* is present and truthy (a string other than the empty one, or a truthy   *)
(* value of another type), else the default.                               *)
(***************************************************************************)
OrString(data, k, d) ==
    IF k \in DOMAIN data /\ (IF Mistyped(data, k) THEN data[k].truthy ELSE data[k] # "")
        THEN data[k] ELSE d

EmptyObject == << >>

\* NewDesign with the operands of line 9 swapped: data.file_path || filePath.
NewDesignDataFirst(data, filePath) ==
    Typed([paperId |-> OrString(data, "paper_id", ""),
           title |-> OrString(data, "paper_title", ""),
           geometryType |-> OrString(data, "geometry_type", ""),
           parameters |-> IF "parameters" \in DOMAIN data THEN data["parameters"]
                          ELSE EmptyObject,
           filePath |-> OrString(data, "file_path", filePath),
           generatedAt |-> OrString(data, "generated_at", ""),
           manufacturing |-> OrString(data, "manufacturing_method", ""),
           scale |-> OrString(data, "scale", "")],
          IF Kept(data, "geometry_type") THEN {"geometryType"} ELSE {})

\* new Design(data, filePath).  geometryType is the field a getter calls a
\* method of; the other fields are only written into markup, where a value
\* of any type turns into text.
NewDesign(data, filePath) ==
    Typed([paperId |-> OrString(data, "paper_id", ""),
           title |-> OrString(data, "paper_title", ""),
           geometryType |-> OrString(data, "geometry_type", ""),
           parameters |-> IF "parameters" \in DOMAIN data THEN data["parameters"]
                          ELSE EmptyObject,
           filePath |-> IF filePath # "" THEN filePath
                        ELSE OrString(data, "file_path", ""),
           generatedAt |-> OrString(data, "generated_at", ""),
           manufacturing |-> OrString(data, "manufacturing_method", ""),
           scale |-> OrString(data, "scale", "")],
          IF Kept(data, "geometry_type") THEN {"geometryType"} ELSE {})

\* get displayTitle
DisplayTitle(d) == IF d.title # "" THEN d.title ELSE d.paperId

\* get displayGeometry: every "_" of the geometry tag becomes a space
RECURSIVE ReplaceUnderscores(_)
ReplaceUnderscores(s) ==
    IF Len(s) = 0 THEN ""
    ELSE (IF SubSeq(s, 1, 1) = "_" THEN " " ELSE SubSeq(s, 1, 1))
             \o ReplaceUnderscores(SubSeq(s, 2, Len(s)))

DisplayGeometry(d) == ReplaceUnderscores(d.geometryType)

\* get displayGeometry calls replace, which only a string has: on a
\* geometryType of another type it throws a TypeError.
DisplayGeometryThrows(d) == Mistyped(d, "geometryType")

\* design.filePath.replace(/\.json$/, '.stl'): only a ".json" that ends the
\* string is replaced; any other string is returned unchanged.
StlPath(filePath) ==
    LET n == Len(filePath) IN
    IF n >= 5 /\ SubSeq(filePath, n - 4, n) = ".json"
        THEN SubSeq(filePath, 1, n - 5) \o ".stl"
        ELSE filePath

(***************************************************************************)
(* views/designs.js, DesignsView.  A view is the closure of one call:      *)
(*   list      the content of its #designs-list element                    *)
(*   pc        "scan" while loadDesigns runs, "returned" once its promise  *)
(*             is resolved ("rejected" if an exception left it), "done"    *)
(*             once the then-callback has run ("threw" if an exception     *)
(*             left it)                                                    *)
(*   pos       the loop variables of loadDesigns                           *)
(*   files     the local array files                                       *)
(*   inflight  the probes of this run that are not resolved yet: the path  *)
(*             and whether the fetch or the body parse is awaited          *)
(*   issued    the number of fetch calls this run has made                 *)
(*   lastFetch the path of the latest of them                              *)
(* A step of loadDesigns yields the new closure and the lines it logged.   *)
(***************************************************************************)
NoRows == << >>
NoPanel == << >>
NoChildren == << >>

LoadingList == [kind |-> "loading", rows |-> NoRows, panel |-> NoPanel,
                stlViewer |-> NoChildren]

\* Probe without the await of line 49: the loop goes on to the next
\* candidate while the fetch is outstanding.
ProbeNoAwait(view, pos) ==
    LET f == PathAt(pos)
        np == NextPos(pos)
        g == IF Exhausted(np) THEN f ELSE PathAt(np)
    IN [v |-> [view EXCEPT !.pos = IF Exhausted(np) THEN pos ELSE np,
                           !.inflight = @ \cup {[path |-> f, awaiting |-> "fetch"],
                                                [path |-> g, awaiting |-> "fetch"]},
                           !.issued = @ + (IF Exhausted(np) THEN 1 ELSE 2),
                           !.lastFetch = g],
        out |-> << "Trying to fetch: " \o f >>]

\* Lines 45-49: one iteration of the innermost loop up to its await: build
\* the path, log it, call fetch and suspend until the fetch settles.
Probe(view, pos) ==
    LET f == PathAt(pos) IN
    [v |-> [view EXCEPT !.pos = pos,
                        !.inflight = @ \cup {[path |-> f, awaiting |-> "fetch"]},
                        !.issued = @ + 1,
                        !.lastFetch = f],
     out |-> << "Trying to fetch: " \o f >>]

\* The end of one iteration: the loops advance to the next candidate or,
\* when they are exhausted, lines 63-64 log the total and return files.
Continue(view) ==
    LET np == NextPos(view.pos) IN
    IF Exhausted(np)
        THEN [v |-> [view EXCEPT !.pos = np, !.pc = "returned"],
              out |-> << "Total designs loaded: " \o ToString(Len(view.files)) >>]
        ELSE Probe(view, np)

\* Lines 27-32 and the first iteration: the state a new view is in when
\* DesignsView() returns.
NewDesignsView ==
    LET fresh == [list |-> LoadingList, pc |-> "scan", pos |-> FirstPos,
                  files |-> << >>, inflight |-> {}, issued |-> 0, lastFetch |-> ""]
        first == IF Exhausted(FirstPos)
                     THEN [v |-> [fresh EXCEPT !.pc = "returned"],
                           out |-> << "Total designs loaded: 0" >>]
                     ELSE Probe(fresh, FirstPos)
    IN [v |-> first.v,
        out |-> << "Loading design metadata from known folders..." >> \o first.out]

\* The text of a caught exception, as string concatenation renders it.
NetErrorText == "TypeError: Failed to fetch"
JsonErrorText == "SyntaxError: Unexpected token"
NullErrorText == "TypeError: Cannot read properties of null"
TypeErrorText == "TypeError: not a function"

\* Caught with the try block around the loops instead of inside them: the
\* first exception ends the scan.
CaughtAbort(view, f, e) ==
    [v |-> [view EXCEPT !.pc = "returned"],
     out |-> << "Error fetching " \o f \o ": " \o e,
                "Total designs loaded: " \o ToString(Len(view.files)) >>]

\* Caught with no catch block: the exception leaves loadDesigns, whose
\* promise is rejected.
CaughtRethrow(view, f, e) == [v |-> [view EXCEPT !.pc = "rejected"], out |-> << >>]

\* Caught with a catch block that logs nothing.
CaughtSilent(view, f, e) == Continue(view)

\* Lines 55-57: the catch block, then the next iteration.
Caught(view, f, e) ==
    LET c == Continue(view) IN
    [v |-> c.v, out |-> << "Error fetching " \o f \o ": " \o e >> \o c.out]

\* AfterFetch with the await of resp.json() missing: the body parse is
\* started and the loop goes on at once.
AfterFetchNoAwait(view, q, resp) ==
    LET rest == [view EXCEPT !.inflight = @ \ {q}] IN
    IF resp.net = "neterror" THEN Caught(rest, q.path, NetErrorText)
    ELSE IF resp.net = "ok"
        THEN LET c == Continue(rest) IN
             [v |-> [c.v EXCEPT !.inflight =
                         @ \cup {[path |-> q.path, awaiting |-> "json"]}],
              out |-> c.out]
    ELSE Continue(rest)

\* The continuation of line 49 when the fetch of probe q settles with resp.
AfterFetch(view, q, resp) ==
    LET rest == [view EXCEPT !.inflight = @ \ {q}] IN
    IF resp.net = "neterror" THEN Caught(rest, q.path, NetErrorText)
    ELSE IF resp.net = "ok"
        THEN [v |-> [view EXCEPT !.inflight =
                         (@ \ {q}) \cup {[path |-> q.path, awaiting |-> "json"]}],
              out |-> << >>]
    ELSE Continue(rest)

\* AfterJson with a constructor that takes a null body for an empty object.
AfterJsonNullRecord(view, q, resp) ==
    LET rest == [view EXCEPT !.inflight = @ \ {q}] IN
    IF resp.json = "invalid" THEN Caught(rest, q.path, JsonErrorText)
    ELSE LET data == IF resp.json = "null" THEN EmptyObject ELSE resp.data
             pushed == [rest EXCEPT !.files = Append(@, NewDesign(data, q.path))]
             c == Continue(pushed)
         IN [v |-> c.v, out |-> << "Loaded design: " \o q.path >> \o c.out]

\* AfterJson with the list shown anew after every record found.
AfterJsonShowing(view, q, resp) ==
    LET rest == [view EXCEPT !.inflight = @ \ {q}] IN
    IF resp.json = "invalid" THEN Caught(rest, q.path, JsonErrorText)
    ELSE IF resp.json = "null" THEN Caught(rest, q.path, NullErrorText)
    ELSE LET files == Append(rest.files, NewDesign(resp.data, q.path))
             pushed == [rest EXCEPT !.files = files, !.list.kind = "items",
                            !.list.rows = [i \in 1..Len(files) |->
                                [title |-> files[i].paperId, geometry |-> "",
                                 filePath |-> files[i].filePath, design |-> files[i]]]]
             c == Continue(pushed)
         IN [v |-> c.v, out |-> << "Loaded design: " \o q.path >> \o c.out]

\* AfterJson with files.unshift in place of files.push.
AfterJsonUnshift(view, q, resp) ==
    LET rest == [view EXCEPT !.inflight = @ \ {q}] IN
    IF resp.json = "invalid" THEN Caught(rest, q.path, JsonErrorText)
    ELSE IF resp.json = "null" THEN Caught(rest, q.path, NullErrorText)
    ELSE LET pushed == [rest EXCEPT !.files = << NewDesign(resp.data, q.path) >> \o @]
             c == Continue(pushed)
         IN [v |-> c.v, out |-> << "Loaded design: " \o q.path >> \o c.out]

\* The continuation of line 51 when resp.json() of probe q settles.
AfterJson(view, q, resp) ==
    LET rest == [view EXCEPT !.inflight = @ \ {q}] IN
    IF resp.json = "invalid" THEN Caught(rest, q.path, JsonErrorText)
    ELSE IF resp.json = "null" THEN Caught(rest, q.path, NullErrorText)
    ELSE LET pushed == [rest EXCEPT !.files = Append(@, NewDesign(resp.data, q.path))]
             c == Continue(pushed)
         IN [v |-> c.v, out |-> << "Loaded design: " \o q.path >> \o c.out]

\* Lines 75-84: one row per design, in the order of the array.
Row(design) == [title |-> DisplayTitle(design), geometry |-> DisplayGeometry(design),
                filePath |-> design.filePath, design |-> design]

\* The designs forEach builds a row for: all of them, or the ones before the
\* first whose template (lines 78-81) throws.
RECURSIVE RowsBuilt(_)
RowsBuilt(files) ==
    IF Len(files) = 0 \/ DisplayGeometryThrows(Head(files)) THEN 0
    ELSE 1 + RowsBuilt(Tail(files))

\* Lines 67-85: the then-callback of loadDesigns().  An exception of a
\* template leaves the callback with the rows built so far in the emptied
\* list; nothing catches it ("threw").
RenderDesigns(view) ==
    IF Len(view.files) = 0
        THEN [v |-> [view EXCEPT !.pc = "done", !.list.kind = "none"],
              out |-> << "No designs found." >>]
        ELSE LET n == RowsBuilt(view.files) IN
             [v |-> [view EXCEPT !.pc = IF n < Len(view.files) THEN "threw" ELSE "done",
                         !.list.kind = "items",
                         !.list.rows = [i \in 1..n |-> Row(view.files[i])]],
              out |-> << "Rendering " \o ToString(Len(view.files)) \o " designs." >>]

\* Lines 87-98: showDesignDetail up to the two onclick assignments.
ShowDesignDetail(view, design) ==
    [v |-> [view EXCEPT !.list =
               [kind |-> "detail", rows |-> NoRows,
                panel |-> << [title |-> DisplayTitle(design),
                              geometry |-> DisplayGeometry(design),
                              file |-> design.filePath,
                              parameters |-> design.parameters,
                              stlPath |-> StlPath(design.filePath)] >>,
                stlViewer |-> NoChildren]],
     out |-> << "Showing details for design: " \o DisplayTitle(design) >>]

(***************************************************************************)
(* models/paper.js.  data.k || d for a number field k: the field when it   *)
(* is present and truthy (a number other than 0, or a truthy value of      *)
(* another type), else the default.  The year is carried as its decimal    *)
(* text and the relevance score in hundredths (700 stands for 7.0); the    *)
(* scores of the model are multiples of 0.25, which a binary floating      *)
(* point number holds exactly.                                             *)
(***************************************************************************)
OrNumber(data, k, d) ==
    IF k \in DOMAIN data /\ (IF Mistyped(data, k) THEN data[k].truthy ELSE data[k] # 0)
        THEN data[k] ELSE d

\* data.authors || []: an array is truthy, also the empty one.
OrArray(data, k, d) ==
    IF k \in DOMAIN data /\ (Mistyped(data, k) => data[k].truthy) THEN data[k] ELSE d

\* The fields of a Paper that hold a value of unexpected type.  authors and
\* score are the fields a getter calls a method of; the other fields are
\* only written into markup, where a value of any type turns into text.
OddFields(data) ==
    (IF Kept(data, "authors") THEN {"authors"} ELSE {})
        \cup (IF Kept(data, "relevance_score") THEN {"score"} ELSE {})

EmptyArray == << >>

\* data.pdf_path || (data.openAccessPdf && data.openAccessPdf.url) || ''
ResolvePdf(data) ==
    IF "pdf_path" \in DOMAIN data /\ data["pdf_path"] # "" THEN data["pdf_path"]
    ELSE IF "openAccessPdf" \in DOMAIN data
        THEN OrString(data["openAccessPdf"], "url", "")
    ELSE ""

\* NewPaper with a placeholder as the default title.
NewPaperUntitled(data) ==
    Typed([id |-> OrString(data, "paperId", OrString(data, "id", "")),
           title |-> OrString(data, "title", "Untitled"),
           year |-> OrString(data, "year", ""),
           authors |-> OrArray(data, "authors", EmptyArray),
           venue |-> OrString(data, "venue", ""),
           citationCount |-> OrNumber(data, "citationCount", 0),
           url |-> OrString(data, "url", ""),
           pdf |-> ResolvePdf(data),
           extracted |-> IF "extracted_params" \in DOMAIN data
                            THEN data["extracted_params"] ELSE EmptyObject,
           score |-> OrNumber(data, "relevance_score", 0)],
          OddFields(data))

\* new Paper(data)
NewPaper(data) ==
    Typed([id |-> OrString(data, "paperId", OrString(data, "id", "")),
           title |-> OrString(data, "title", ""),
           year |-> OrString(data, "year", ""),
           authors |-> OrArray(data, "authors", EmptyArray),
           venue |-> OrString(data, "venue", ""),
           citationCount |-> OrNumber(data, "citationCount", 0),
           url |-> OrString(data, "url", ""),
           pdf |-> ResolvePdf(data),
           extracted |-> IF "extracted_params" \in DOMAIN data
                            THEN data["extracted_params"] ELSE EmptyObject,
           score |-> OrNumber(data, "relevance_score", 0)],
          OddFields(data))

\* authors.map(a => a.name).join(', '): a missing name joins as the empty
\* string.
RECURSIVE JoinNames(_)
JoinNames(authors) ==
    IF Len(authors) = 0 THEN ""
    ELSE IF Len(authors) = 1 THEN OrString(authors[1], "name", "")
    ELSE OrString(authors[1], "name", "") \o ", " \o JoinNames(Tail(authors))

\* get displayAuthors
DisplayAuthors(paper) == IF Len(paper.authors) = 0 THEN "" ELSE JoinNames(paper.authors)

\* get displayAuthors calls map, which only an array has: on authors of
\* another type (truthy, and of no length or of a length other than 0) it
\* throws a TypeError.
DisplayAuthorsThrows(paper) == Mistyped(paper, "authors")

\* get displayYear
DisplayYear(paper) == IF paper.year # "" THEN "(" \o paper.year \o ")" ELSE ""

\* Number.prototype.toFixed(1) of a score given in hundredths: the sign,
\* then the tenths nearest to the magnitude (of two equally near the larger),
\* written with one digit after the point.
ToFixed1Truncating(x) ==
    LET a == IF x < 0 THEN 0 - x ELSE x
        n == a \div 10
    IN (IF x < 0 THEN "-" ELSE "") \o ToString(n \div 10) \o "." \o ToString(n % 10)

ToFixed1(x) ==
    LET a == IF x < 0 THEN 0 - x ELSE x
        n == (a + 5) \div 10
    IN (IF x < 0 THEN "-" ELSE "") \o ToString(n \div 10) \o "." \o ToString(n % 10)

\* get displayScore: score.toFixed(1) in brackets
DisplayScore(paper) ==
    IF paper.score # 0 THEN "[" \o ToFixed1(paper.score) \o "]" ELSE ""

\* get displayScore calls toFixed, which only a number has: on a truthy
\* score of another type it throws a TypeError.
DisplayScoreThrows(paper) == Mistyped(paper, "score")

\* get pdfLink
PdfLink(paper) == paper.pdf

(***************************************************************************)
(* views/papers.js, PapersView.  A view is the closure of one call:        *)
(*   list     the content of its #papers-list element                      *)
(*   pc       "fetch" while the fetch of the catalog is outstanding,       *)
(*            "json" while r.json() is, "done" when the promise chain has  *)
(*            ended                                                        *)
(*   fetches  the number of fetch calls the view has made                  *)
(* A step of the chain yields the new closure and the lines it logged.     *)
(***************************************************************************)
PapersPath == "data/papers.json"

PapersList(kind, rows) == [kind |-> kind, rows |-> rows, panel |-> NoPanel]

\* Lines 6-11: the state a new view is in when PapersView() returns.
NewPapersView ==
    [v |-> [kind |-> "papers", list |-> PapersList("loading", NoRows),
            pc |-> "fetch", fetches |-> 1],
     out |-> << "Loading papers.json..." >>]

\* PapersFailed with a second fetch of the catalog made from the catch block.
PapersFailedRetry(view, e) ==
    [v |-> [view EXCEPT !.pc = "fetch", !.fetches = @ + 1,
                        !.list = PapersList("error", NoRows)],
     out |-> << "Failed to load papers.json: " \o e >>]

\* Lines 37-40: the catch callback.
PapersFailed(view, e) ==
    [v |-> [view EXCEPT !.pc = "done", !.list = PapersList("error", NoRows)],
     out |-> << "Failed to load papers.json: " \o e >>]

\* r.status
Status(resp) == IF resp.net = "ok" THEN 200 ELSE 404

\* Lines 12-15: the fetch settles; a response of any status goes on to
\* r.json(), a rejection goes to the catch callback.
AfterPapersFetch(view, resp) ==
    IF resp.net = "neterror" THEN PapersFailed(view, NetErrorText)
    ELSE [v |-> [view EXCEPT !.pc = "json"],
          out |-> << "Fetched data/papers.json: " \o ToString(Status(resp)) >>]

\* PaperRow with the rows' PDF links left out.
PaperRowNoLink(paper) ==
    [title |-> paper.title, year |-> DisplayYear(paper), score |-> DisplayScore(paper),
     authors |-> DisplayAuthors(paper), pdf |-> << >>, paper |-> paper]

\* The template of lines 28-32 throws when one of its getters does.
PaperRowThrows(paper) == DisplayScoreThrows(paper) \/ DisplayAuthorsThrows(paper)

\* Lines 26-32: the markup of one row; the link is there when pdfLink is
\* not empty.
PaperRow(paper) ==
    [title |-> paper.title, year |-> DisplayYear(paper), score |-> DisplayScore(paper),
     authors |-> DisplayAuthors(paper),
     pdf |-> IF PdfLink(paper) # "" THEN << PdfLink(paper) >> ELSE << >>,
     paper |-> paper]

\* Lines 16-36: r.json() settles; a body that is not JSON rejects and goes to
\* the catch callback, and so does an exception thrown while the rows are
\* built: the catch callback replaces the rows built before it.
AfterPapersJson(view, resp) ==
    IF resp.json \in {"invalid", "none"} THEN PapersFailed(view, JsonErrorText)
    ELSE IF resp.json # "array" \/ Len(resp.data) = 0
        THEN [v |-> [view EXCEPT !.pc = "done", !.list = PapersList("none", NoRows)],
              out |-> << "No papers found in papers.json" >>]
    ELSE IF \E i \in 1..Len(resp.data) : PaperRowThrows(NewPaper(resp.data[i]))
        THEN LET failed == PapersFailed(view, TypeErrorText) IN
             [v |-> failed.v,
              out |-> << "Loaded " \o ToString(Len(resp.data)) \o " papers." >>
                          \o failed.out]
    ELSE [v |-> [view EXCEPT !.pc = "done",
                     !.list = PapersList("items",
                         [i \in 1..Len(resp.data) |-> PaperRow(NewPaper(resp.data[i]))])],
          out |-> << "Loaded " \o ToString(Len(resp.data)) \o " papers." >>]

\* Lines 42-53: showPaperDetail up to the onclick assignment.
ShowPaperDetail(view, paper) ==
    [v |-> [view EXCEPT !.list =
               [kind |-> "detail", rows |-> NoRows,
                panel |-> << [title |-> paper.title, authors |-> DisplayAuthors(paper),
                              year |-> paper.year, venue |-> paper.venue,
                              score |-> DisplayScore(paper), pdf |-> PdfLink(paper),
                              extracted |-> paper.extracted] >>]],
     out |-> << "Showing details for paper: " \o paper.title >>]

(***************************************************************************)
(* utils/stl_viewer.js, STLViewer.render.  One invocation is the closure   *)
(* of one call:                                                            *)
(*   container  the view whose #stl-viewer element was passed              *)
(*   url        the stlUrl argument                                        *)
(*   scene      the objects added to its THREE.Scene                       *)
(*   controls   whether it constructed an OrbitControls                    *)
(*   status     "loading" until the loader calls back, then "loaded" or    *)
(*              "failed"                                                   *)
(*   started    calls of animate() made by the load callback               *)
(*   scheduled  its requestAnimationFrame callbacks waiting for the next   *)
(*              display refresh                                            *)
(*   frames     display refreshes that ran a callback of this invocation   *)
(*   renders    calls of renderer.render(scene, camera)                    *)
(*   updates    calls of controls.update()                                 *)
(***************************************************************************)
Canvas(i) == [tag |-> "canvas", of |-> i]
ErrorIndicator == [tag |-> "error", of |-> 0]

\* Lines 7-32: the synchronous part of render, for invocation number i.
NewViewer(container, stlUrl, hasControls) ==
    [container |-> container, url |-> stlUrl,
     scene |-> {"directionalLight", "ambientLight"},
     controls |-> hasControls, status |-> "loading",
     started |-> 0, scheduled |-> 0, frames |-> 0, renders |-> 0, updates |-> 0]

\* Animate with requestAnimationFrame called twice.
AnimateTwice(w) ==
    [w EXCEPT !.scheduled = @ + 2,
              !.renders = @ + 1,
              !.updates = IF w.controls THEN @ + 1 ELSE @]

\* Lines 45-49: one call of animate.
Animate(w) ==
    [w EXCEPT !.scheduled = @ + 1,
              !.renders = @ + 1,
              !.updates = IF w.controls THEN @ + 1 ELSE @]

\* OnError with the render loop started all the same.
OnErrorAnimating(w) ==
    [w EXCEPT !.status = "failed", !.started = @ + 1, !.scheduled = @ + 1,
              !.renders = @ + 1]

\* Lines 41-43: the loader's onError callback, for the invocation's closure.
OnError(w) == [w EXCEPT !.status = "failed"]

\* Lines 33-40: the loader's onLoad callback.
OnLoad(w) ==
    Animate([w EXCEPT !.status = "loaded", !.scene = @ \cup {"mesh"},
                      !.started = @ + 1])

\* One display refresh: the browser takes the callbacks requested since the
\* last refresh and runs each once.
RECURSIVE RunCallbacks(_, _)
RunCallbacks(w, n) == IF n = 0 THEN w ELSE RunCallbacks(Animate(w), n - 1)

OnFrame(w) ==
    RunCallbacks([w EXCEPT !.scheduled = 0, !.frames = @ + 1], w.scheduled)

(***************************************************************************)
(* The initial state: main.js has run (lines 48-49), the dashboard is      *)
(* shown.  The page is taken to hold the #console and #app-root elements.  *)
(***************************************************************************)
LastPos == [f |-> Len(folders), v |-> LastVersion, t |-> Len(types),
            p |-> Len(periods), h |-> Len(heights)]

\* The paths whose answer varies between the hosts of the model: the first
\* candidate, the first candidate of the second (folder, version, type)
\* bucket, and the last candidate.  Every other path is missing.
FirstPath == PathAt(FirstPos)
BucketPath == PathAt([FirstPos EXCEPT !.t = 2])
LastPath == PathAt(LastPos)

Sites == {FirstPath, BucketPath, LastPath}

Hosts == [Sites -> {NotFound, NetError, OkObject(FullData)}]

ViewerHosts == [Sites -> {NotFound, OkObject(FullData), OkObject(BareData)}]

StallHosts == [Sites -> {NotFound, Hang, OkObject(BareData)}]

LoadingHosts == [Sites -> {NotFound, NetError, Hang, OkObject(BareData)}]

BodyHosts == [Sites -> {NotFound, OkObject(BareData), OkNull, OkInvalid}]

\* A child of the root container: the element of DesignsView number view,
\* or the content number view of pages.
Child(kind, view) == [kind |-> kind, view |-> view]

\* Render with the root not emptied first.
RenderNoClear(root, view) == Append(root, view)

\* main.js, render: appRoot.innerHTML = ''; appRoot.appendChild(view).
Render(root, view) == Append(<< >>, view)

\* el.replaceWith(view): view takes the place of el among the children of
\* el's parent; nothing happens to a root that does not hold el.
ReplaceWith(root, el, view) ==
    [k \in DOMAIN root |-> IF root[k] = el THEN view ELSE root[k]]

\* The root container holding one view and nothing else.
Root(kind, view) == << Child(kind, view) >>

\* views/dashboard.js, DashboardView: a static section.
DashboardPage == [kind |-> "dashboard"]

\* The markup showAbout assigns to the root.
AboutPage == [kind |-> "about"]

RenderHosts == [{FirstPath, LastPath} -> {NotFound, OkObject(BareData)}]

\* Records of the paper catalog.
TitleOnly == [title |-> "T"]

FullPaper ==
    [paperId |-> "p1", title |-> "Water-based absorber", year |-> "2021",
     authors |-> << [name |-> "A. Lee"], [name |-> "B. Cho"] >>, venue |-> "Nature",
     citationCount |-> 12, url |-> "https://example.org/p1",
     pdf_path |-> "papers/p1.pdf", extracted_params |-> [period |-> 20],
     relevance_score |-> 700]

OpenAccessPaper ==
    [id |-> "p2", title |-> "Split rings", authors |-> << [name |-> "C. Diaz"] >>,
     openAccessPdf |-> [url |-> "https://example.org/p2.pdf"]]

NoLinkPaper ==
    [title |-> "No link", pdf_path |-> "", openAccessPdf |-> [status |-> "CLOSED"],
     authors |-> << [name |-> "D. Eco"], [affiliation |-> "none"] >>,
     relevance_score |-> 0]

Unrelated == [note |-> "x"]

\* The answers to the fetch of the catalog.
Catalogs ==
    {OkArray(<< TitleOnly >>),
     OkArray(<< FullPaper, OpenAccessPaper, NoLinkPaper >>),
     OkArray(<< EmptyObject, Unrelated >>),
     OkArray(EmptyArray),
     OkObject(FullPaper),
     OkInvalid,
     NotFound,
     NetError}

PaperHosts ==
    {[p \in {FirstPath, PapersPath} |-> IF p = FirstPath THEN OkObject(EmptyObject) ELSE a] :
        a \in Catalogs}

NavHosts ==
    {[p \in {FirstPath, PapersPath} |-> IF p = FirstPath THEN OkObject(BareData) ELSE a] :
        a \in {OkArray(<< TitleOnly >>), NetError}}

\* Records with a field of unexpected type.  In the catalog:
\* "relevance_score": "7.5", "authors": "A. Lee", and "relevance_score": ""
\* with "authors": null.  In a design file: "geometry_type": 42 and
\* "geometry_type": 0.
ScoreAsText ==
    [title |-> "S", relevance_score |-> OfType("string", TRUE),
     mistyped |-> {"relevance_score"}]

AuthorsAsText ==
    [title |-> "A", authors |-> OfType("string", TRUE), mistyped |-> {"authors"}]

FalsyFields ==
    [title |-> "F", relevance_score |-> OfType("string", FALSE),
     authors |-> OfType("null", FALSE), mistyped |-> {"relevance_score", "authors"}]

NumericGeometry ==
    [paper_id |-> "0a16f0a3", geometry_type |-> OfType("number", TRUE),
     mistyped |-> {"geometry_type"}]

ZeroGeometry ==
    [paper_id |-> "0a16f0a3", geometry_type |-> OfType("number", FALSE),
     mistyped |-> {"geometry_type"}]

MalformedCatalogs ==
    {OkArray(<< TitleOnly, ScoreAsText >>),
     OkArray(<< AuthorsAsText >>),
     OkArray(<< FalsyFields >>),
     OkArray(<< FullPaper >>)}

MalformedDesigns ==
    {OkObject(BareData), OkObject(NumericGeometry), OkObject(ZeroGeometry)}

MalformedHosts ==
    {[p \in {FirstPath, LastPath, PapersPath} |->
         IF p = FirstPath THEN a ELSE IF p = LastPath THEN b ELSE c] :
        a \in MalformedDesigns, b \in MalformedDesigns, c \in MalformedCatalogs}

\* Catalogs of one record: without a relevance_score, or with a score that
\* is a multiple of 0.25.
ScoreRecords ==
    {[title |-> "T"]}
        \cup {[title |-> "T", relevance_score |-> 25 * q] : q \in -MaxQuarters..MaxQuarters}

ScoreHosts == {[p \in {PapersPath} |-> OkArray(<< record >>)] : record \in ScoreRecords}

InitOn(hosts) ==
    /\ host \in hosts
    /\ console = << "App loaded", "Navigating to Dashboard" >>
    /\ appRoot = Render(<< >>, Child("dashboard", 1))
    /\ views = << >>
    /\ viewers = << >>
    /\ pages = << DashboardPage >>

Init == InitOn(Hosts)

(***************************************************************************)
(* Actions.  A promise continuation that is ready (the then-callback of a  *)
(* returned loadDesigns) is a microtask: it runs before the event loop     *)
(* takes the next click, network callback or display refresh.              *)
(***************************************************************************)
ScanRunning == \E r \in DOMAIN views : views[r].pc \notin {"done", "threw"}

MicrotaskReady == \E r \in DOMAIN views : views[r].pc = "returned"

Shown(r) == appRoot = Root("designs", r)

\* main.js, showDesigns: the Designs navigation button.
PressDesigns ==
    /\ ~MicrotaskReady
    /\ Len(views) < MaxViews
    /\ LET n == NewDesignsView IN
       /\ console' = LogAll(Log(console, "Navigating to Designs"), n.out)
       /\ views' = Append(views, n.v)
       /\ appRoot' = Render(appRoot, Child("designs", Len(views) + 1))
    /\ UNCHANGED <<host, viewers, pages>>

\* The Designs button pressed while no scan is running.
ShowDesigns == ~ScanRunning /\ PressDesigns

\* The Designs button pressed, with the Designs view on display, while a scan
\* is running that has at most LateProbes probes left to issue.
ReopenDesigns ==
    /\ ScanRunning
    /\ Len(pages) = 1
    /\ \A r \in DOMAIN views :
          views[r].pc = "scan" => views[r].issued >= NumCandidates - LateProbes
    /\ PressDesigns

\* The first press of the Designs button.
OpenDesigns == views = << >> /\ ShowDesigns

\* The fetch of a probe settles: the response arrives or the fetch rejects.
FetchSettled(r) ==
    /\ ~MicrotaskReady
    /\ \E q \in views[r].inflight :
          /\ q.awaiting = "fetch"
          /\ Response(host, q.path).net # "hang"
          /\ LET a == AfterFetch(views[r], q, Response(host, q.path)) IN
             /\ views' = [views EXCEPT ![r] = a.v]
             /\ console' = LogAll(console, a.out)
    /\ UNCHANGED <<host, appRoot, viewers, pages>>

\* JsonSettled with the array files declared outside DesignsView and shared
\* by its runs: the record goes to the array the first run returns.
JsonSettledShared(r) ==
    /\ ~MicrotaskReady
    /\ \E q \in views[r].inflight :
          /\ q.awaiting = "json"
          /\ LET a == AfterJson(views[r], q, Response(host, q.path))
                 found == Len(a.v.files) > Len(views[r].files)
             IN /\ views' = IF found /\ r # 1
                               THEN [views EXCEPT
                                        ![r] = [a.v EXCEPT !.files = views[r].files],
                                        ![1].files = Append(@, a.v.files[Len(a.v.files)])]
                               ELSE [views EXCEPT ![r] = a.v]
                /\ console' = LogAll(console, a.out)
    /\ UNCHANGED <<host, appRoot, viewers, pages>>

\* resp.json() of a probe settles.
JsonSettled(r) ==
    /\ ~MicrotaskReady
    /\ \E q \in views[r].inflight :
          /\ q.awaiting = "json"
          /\ LET a == AfterJson(views[r], q, Response(host, q.path)) IN
             /\ views' = [views EXCEPT ![r] = a.v]
             /\ console' = LogAll(console, a.out)
    /\ UNCHANGED <<host, appRoot, viewers, pages>>

\* DesignsLoaded with the list element looked up in the document when the
\* callback runs: the rows go to the Designs view on display, if there is one.
DesignsLoadedGlobal(r) ==
    /\ views[r].pc = "returned"
    /\ LET a == RenderDesigns(views[r])
           shown == {d \in DOMAIN views : Shown(d)}
           target == IF shown = {} THEN r ELSE CHOOSE d \in shown : TRUE
       IN /\ views' = [d \in DOMAIN views |->
                          IF d = target
                             THEN [views[d] EXCEPT !.list = a.v.list,
                                       !.pc = IF d = r THEN "done" ELSE @]
                          ELSE IF d = r THEN [views[d] EXCEPT !.pc = "done"]
                          ELSE views[d]]
          /\ console' = LogAll(console, a.out)
    /\ UNCHANGED <<host, appRoot, viewers, pages>>

\* The then-callback of loadDesigns() runs.
DesignsLoaded(r) ==
    /\ views[r].pc = "returned"
    /\ LET a == RenderDesigns(views[r]) IN
       /\ views' = [views EXCEPT ![r] = a.v]
       /\ console' = LogAll(console, a.out)
    /\ UNCHANGED <<host, appRoot, viewers, pages>>

\* SelectDesign with the mesh loaded as soon as the panel is shown.
SelectDesignRendering(r, i) ==
    /\ ~MicrotaskReady
    /\ Shown(r)
    /\ views[r].list.kind = "items"
    /\ i \in DOMAIN views[r].list.rows
    /\ LET a == ShowDesignDetail(views[r], views[r].list.rows[i].design)
           stlPath == a.v.list.panel[1].stlPath
           auto == Len(viewers) < MaxRenders
       IN /\ views' = [views EXCEPT ![r] =
                          IF auto
                             THEN [a.v EXCEPT !.list.stlViewer =
                                                  << Canvas(Len(viewers) + 1) >>]
                             ELSE a.v]
          /\ console' = LogAll(console, a.out)
          /\ viewers' = IF auto THEN Append(viewers, NewViewer(r, stlPath, TRUE))
                        ELSE viewers
    /\ UNCHANGED <<host, appRoot, pages>>

\* The user clicks row i of the list (line 82).
SelectDesign(r, i) ==
    /\ ~MicrotaskReady
    /\ Shown(r)
    /\ views[r].list.kind = "items"
    /\ i \in DOMAIN views[r].list.rows
    /\ LET a == ShowDesignDetail(views[r], views[r].list.rows[i].design) IN
       /\ views' = [views EXCEPT ![r] = a.v]
       /\ console' = LogAll(console, a.out)
    /\ UNCHANGED <<host, appRoot, viewers, pages>>

\* Back with the list shown again from the array the view already holds, in
\* place of a new DesignsView.
BackKeeping(r) ==
    /\ ~MicrotaskReady
    /\ Shown(r)
    /\ views[r].list.kind = "detail"
    /\ Len(views) < MaxViews
    /\ LET n == RenderDesigns(views[r]) IN
       /\ console' = LogAll(console, n.out)
       /\ views' = Append(views, n.v)
       /\ appRoot' = ReplaceWith(appRoot, Child("designs", r),
                                  Child("designs", Len(views) + 1))
    /\ UNCHANGED <<host, viewers, pages>>

\* Back with the render loops of the panel's viewer cancelled first.
BackCancelling(r) ==
    /\ ~MicrotaskReady
    /\ Shown(r)
    /\ views[r].list.kind = "detail"
    /\ Len(views) < MaxViews
    /\ LET n == NewDesignsView IN
       /\ console' = LogAll(console, n.out)
       /\ views' = Append(views, n.v)
       /\ appRoot' = ReplaceWith(appRoot, Child("designs", r),
                                  Child("designs", Len(views) + 1))
    /\ viewers' = [i \in DOMAIN viewers |->
                      IF viewers[i].container = r
                         THEN [viewers[i] EXCEPT !.scheduled = 0]
                         ELSE viewers[i]]
    /\ UNCHANGED <<host, pages>>

\* Lines 99-101: the Back button of the detail panel.
Back(r) ==
    /\ ~MicrotaskReady
    /\ Shown(r)
    /\ views[r].list.kind = "detail"
    /\ Len(views) < MaxViews
    /\ LET n == NewDesignsView IN
       /\ console' = LogAll(console, n.out)
       /\ views' = Append(views, n.v)
       /\ appRoot' = ReplaceWith(appRoot, Child("designs", r),
                                  Child("designs", Len(views) + 1))
    /\ UNCHANGED <<host, viewers, pages>>

\* Lines 102-105: the View STL button of the detail panel.  Whether
\* THREE.OrbitControls is defined is read at the call (line 27).
ViewStl(r) ==
    /\ ~MicrotaskReady
    /\ Shown(r)
    /\ views[r].list.kind = "detail"
    /\ Len(viewers) < MaxRenders
    /\ \E hasControls \in BOOLEAN :
          LET stlPath == views[r].list.panel[1].stlPath
              i == Len(viewers) + 1
          IN /\ console' = Log(console, "Loading STL: " \o stlPath)
             /\ viewers' = Append(viewers, NewViewer(r, stlPath, hasControls))
             /\ views' = [views EXCEPT ![r].list.stlViewer = << Canvas(i) >>]
    /\ UNCHANGED <<host, appRoot, pages>>

\* The STL loader of invocation i calls onLoad.
LoadSucceeded(i) ==
    /\ ~MicrotaskReady
    /\ viewers[i].status = "loading"
    /\ viewers' = [viewers EXCEPT ![i] = OnLoad(viewers[i])]
    /\ UNCHANGED <<host, console, appRoot, views, pages>>

\* LoadFailed with the indicator assigned to the list element in place of
\* its #stl-viewer child: the whole detail panel is replaced.
LoadFailedWholeList(i) ==
    /\ ~MicrotaskReady
    /\ viewers[i].status = "loading"
    /\ viewers' = [viewers EXCEPT ![i] = OnError(viewers[i])]
    /\ views' = [views EXCEPT ![viewers[i].container].list =
                     [kind |-> "error", rows |-> NoRows, panel |-> NoPanel,
                      stlViewer |-> << ErrorIndicator >>]]
    /\ UNCHANGED <<host, console, appRoot, pages>>

\* LoadFailed with the container kept in a variable of the module, which
\* every call of render overwrites: the indicator goes to the container of
\* the latest invocation.
LoadFailedShared(i) ==
    /\ ~MicrotaskReady
    /\ viewers[i].status = "loading"
    /\ viewers' = [viewers EXCEPT ![i] = OnError(viewers[i])]
    /\ views' = [views EXCEPT ![viewers[Len(viewers)].container].list.stlViewer =
                                  << ErrorIndicator >>]
    /\ UNCHANGED <<host, console, appRoot, pages>>

\* The STL loader of invocation i calls onError (lines 41-43).
LoadFailed(i) ==
    /\ ~MicrotaskReady
    /\ viewers[i].status = "loading"
    /\ viewers' = [viewers EXCEPT ![i] = OnError(viewers[i])]
    /\ views' = [views EXCEPT ![viewers[i].container].list.stlViewer =
                                  << ErrorIndicator >>]
    /\ UNCHANGED <<host, console, appRoot, pages>>

\* A display refresh runs the animation callbacks of invocation i.
Frame(i) ==
    /\ ~MicrotaskReady
    /\ viewers[i].scheduled > 0
    /\ viewers[i].frames < MaxFrames
    /\ viewers' = [viewers EXCEPT ![i] = OnFrame(viewers[i])]
    /\ UNCHANGED <<host, console, appRoot, views, pages>>

\* The View STL button of a panel whose container no invocation has used.
ViewStlFresh(r) ==
    /\ \A i \in DOMAIN viewers : viewers[i].container # r
    /\ ViewStl(r)

\* The View STL button pressed again in a panel whose container holds an
\* earlier invocation, once the last Designs view of the behaviour is made.
ViewStlAgain(r) ==
    /\ Len(views) = MaxViews
    /\ \E i \in DOMAIN viewers : viewers[i].container = r
    /\ ViewStl(r)

\* main.js, showDashboard: the Dashboard navigation button.
ShowDashboard ==
    /\ ~MicrotaskReady
    /\ Len(pages) < MaxPages
    /\ console' = Log(console, "Navigating to Dashboard")
    /\ pages' = Append(pages, DashboardPage)
    /\ appRoot' = Render(appRoot, Child("dashboard", Len(pages) + 1))
    /\ UNCHANGED <<host, views, viewers>>

\* main.js, showAbout: the About navigation button assigns the markup to the
\* root's innerHTML.
ShowAbout ==
    /\ ~MicrotaskReady
    /\ Len(pages) < MaxPages
    /\ console' = Log(console, "Navigating to About")
    /\ pages' = Append(pages, AboutPage)
    /\ appRoot' = << Child("about", Len(pages) + 1) >>
    /\ UNCHANGED <<host, views, viewers>>

\* main.js, showPapers: the Papers navigation button.
ShowPapers ==
    /\ ~MicrotaskReady
    /\ Len(pages) < MaxPages
    /\ LET n == NewPapersView IN
       /\ console' = LogAll(Log(console, "Navigating to Papers"), n.out)
       /\ pages' = Append(pages, n.v)
       /\ appRoot' = Render(appRoot, Child("papers", Len(pages) + 1))
    /\ UNCHANGED <<host, views, viewers>>

\* The fetch of the catalog by papers view k settles.
PapersFetched(k) ==
    /\ ~MicrotaskReady
    /\ pages[k].kind = "papers"
    /\ pages[k].pc = "fetch"
    /\ Response(host, PapersPath).net # "hang"
    /\ LET a == AfterPapersFetch(pages[k], Response(host, PapersPath)) IN
       /\ pages' = [pages EXCEPT ![k] = a.v]
       /\ console' = LogAll(console, a.out)
    /\ UNCHANGED <<host, appRoot, views, viewers>>

\* r.json() of papers view k settles.
PapersParsed(k) ==
    /\ ~MicrotaskReady
    /\ pages[k].kind = "papers"
    /\ pages[k].pc = "json"
    /\ LET a == AfterPapersJson(pages[k], Response(host, PapersPath)) IN
       /\ pages' = [pages EXCEPT ![k] = a.v]
       /\ console' = LogAll(console, a.out)
    /\ UNCHANGED <<host, appRoot, views, viewers>>

\* The user clicks row i of the papers list (line 33).
SelectPaper(k, i) ==
    /\ ~MicrotaskReady
    /\ appRoot = Root("papers", k)
    /\ pages[k].list.kind = "items"
    /\ i \in DOMAIN pages[k].list.rows
    /\ LET a == ShowPaperDetail(pages[k], pages[k].list.rows[i].paper) IN
       /\ pages' = [pages EXCEPT ![k] = a.v]
       /\ console' = LogAll(console, a.out)
    /\ UNCHANGED <<host, appRoot, views, viewers>>

\* Lines 54-56: the Back button of the paper detail panel.
PapersBack(k) ==
    /\ ~MicrotaskReady
    /\ appRoot = Root("papers", k)
    /\ pages[k].list.kind = "detail"
    /\ Len(pages) < MaxPages
    /\ LET n == NewPapersView IN
       /\ console' = LogAll(console, n.out)
       /\ pages' = Append(pages, n.v)
       /\ appRoot' = ReplaceWith(appRoot, Child("papers", k),
                                  Child("papers", Len(pages) + 1))
    /\ UNCHANGED <<host, views, viewers>>

\* No papers view waits for the catalog.
CatalogIdle == \A k \in DOMAIN pages : pages[k].kind = "papers" => pages[k].pc = "done"

\* The Dashboard, Papers or About button pressed while no scan is running.
NavPage == ~ScanRunning /\ (ShowDashboard \/ ShowPapers \/ ShowAbout)

\* The Designs button pressed while no scan is running and no papers view
\* waits for the catalog.
NavDesigns == CatalogIdle /\ ShowDesigns

\* The Designs button pressed in the first papers view, once the view has
\* its catalog or its error.
LeavePapers ==
    /\ views = << >>
    /\ appRoot = Root("papers", 2)
    /\ NavDesigns

\* The user leaves the first Designs view, once, while its scan runs.
LeaveScan ==
    /\ Len(pages) = 1 /\ Len(views) = 1
    /\ ScanRunning
    /\ (ShowDashboard \/ ShowAbout)

\* The user leaves the Designs view for the dashboard after a viewer was
\* opened and while no scan is running.
LeaveViewer == viewers # << >> /\ ~ScanRunning /\ ShowDashboard

\* The scan of a view: its await continuations and its then-callback.
Scan(r) == FetchSettled(r) \/ JsonSettled(r) \/ DesignsLoaded(r)

\* A step of the scan of view r is waiting to run: its then-callback, or the
\* continuation of an outstanding probe that the host answers.
Pending(r) ==
    \/ views[r].pc = "returned"
    \/ /\ views[r].pc = "scan"
       /\ \E q \in views[r].inflight : Response(host, q.path).net # "hang"

(***************************************************************************)
(* Spec: the Designs view, its scans, its list and detail panel, and the   *)
(* views that Back and further presses of the Designs button construct.    *)
(***************************************************************************)
Next ==
    \/ ShowDesigns
    \/ \E r \in DOMAIN views : FetchSettled(r)
    \/ \E r \in DOMAIN views : JsonSettled(r)
    \/ \E r \in DOMAIN views : DesignsLoaded(r)
    \/ \E r \in DOMAIN views : \E i \in 1..Len(views[r].files) : SelectDesign(r, i)
    \/ \E r \in DOMAIN views : Back(r)

Spec == Init /\ [][Next]_vars

(***************************************************************************)
(* ViewerSpec: one Designs view and the STL viewer of its detail panel.    *)
(***************************************************************************)
ViewerNext ==
    \/ OpenDesigns
    \/ \E r \in DOMAIN views : FetchSettled(r)
    \/ \E r \in DOMAIN views : JsonSettled(r)
    \/ \E r \in DOMAIN views : DesignsLoaded(r)
    \/ \E r \in DOMAIN views : \E i \in 1..Len(views[r].files) : SelectDesign(r, i)
    \/ \E r \in DOMAIN views : ViewStl(r)
    \/ \E i \in DOMAIN viewers : LoadSucceeded(i)
    \/ \E i \in DOMAIN viewers : LoadFailed(i)
    \/ \E i \in DOMAIN viewers : Frame(i)

ViewerSpec == InitOn(ViewerHosts) /\ [][ViewerNext]_vars

(***************************************************************************)
(* StallSpec: one scan on a host where a fetch may never be answered.  The *)
(* event loop runs every continuation that is ready, so the scan's steps   *)
(* are weakly fair.                                                        *)
(***************************************************************************)
StallNext ==
    \/ OpenDesigns
    \/ \E r \in DOMAIN views : FetchSettled(r)
    \/ \E r \in DOMAIN views : JsonSettled(r)
    \/ \E r \in DOMAIN views : DesignsLoaded(r)

StallSpec ==
    /\ InitOn(StallHosts)
    /\ [][StallNext]_vars
    /\ WF_vars(\E r \in DOMAIN views : Scan(r))

(***************************************************************************)
(* LoadingSpec: one scan on a host that answers a fetch with a file, with  *)
(* not-found or with an error, or never.  The event loop runs every        *)
(* continuation that is ready: either a step of the scan is taken again    *)
(* and again, or again and again none is waiting (weak fairness of the     *)
(* scan's steps, with their enabling condition written out).               *)
(***************************************************************************)
ScanFair ==
    \/ []<>(~\E r \in DOMAIN views : Pending(r))
    \/ []<><<\E r \in DOMAIN views : Scan(r)>>_vars

LoadingSpec == InitOn(LoadingHosts) /\ [][StallNext]_vars /\ ScanFair

(***************************************************************************)
(* BodySpec: one scan on a host whose existing files hold a JSON object,   *)
(* the JSON value null, or a body that is not JSON.                        *)
(***************************************************************************)
BodySpec == InitOn(BodyHosts) /\ [][StallNext]_vars

(***************************************************************************)
(* NavSpec: the four navigation buttons in any order, pressed while no     *)
(* scan is running, with the Back buttons of the two detail panels.        *)
(***************************************************************************)
NavNext ==
    \/ NavPage
    \/ NavDesigns
    \/ \E r \in DOMAIN views : FetchSettled(r)
    \/ \E r \in DOMAIN views : JsonSettled(r)
    \/ \E r \in DOMAIN views : DesignsLoaded(r)
    \/ \E r \in DOMAIN views : \E i \in 1..Len(views[r].files) : SelectDesign(r, i)
    \/ \E r \in DOMAIN views : Back(r)
    \/ \E k \in DOMAIN pages : PapersFetched(k)
    \/ \E k \in DOMAIN pages : PapersParsed(k)
    \/ \E k \in DOMAIN pages : SelectPaper(k, 1)
    \/ \E k \in DOMAIN pages : PapersBack(k)

NavSpec == InitOn(NavHosts) /\ [][NavNext]_vars

(***************************************************************************)
(* PapersSpec: the Papers view on hosts that answer the fetch of the       *)
(* catalog in every way, with the Dashboard, Papers and About buttons, the *)
(* rows and the Back button of the papers list, and the Designs view       *)
(* opened from the first papers view.                                      *)
(***************************************************************************)
PapersNext ==
    \/ NavPage
    \/ LeavePapers
    \/ \E r \in DOMAIN views : FetchSettled(r)
    \/ \E r \in DOMAIN views : JsonSettled(r)
    \/ \E r \in DOMAIN views : DesignsLoaded(r)
    \/ \E k \in DOMAIN pages : PapersFetched(k)
    \/ \E k \in DOMAIN pages : PapersParsed(k)
    \/ \E k \in DOMAIN pages : \E i \in 1..3 : SelectPaper(k, i)
    \/ \E k \in DOMAIN pages : PapersBack(k)

PapersSpec == InitOn(PaperHosts) /\ [][PapersNext]_vars

(***************************************************************************)
(* LogSpec: log on its own.  The page is loaded and nothing is logged yet; *)
(* each step is one call of log.  The callers number their messages, so    *)
(* that the lines of the console tell which calls they come from.          *)
(***************************************************************************)
LogTexts == {"Navigating to Dashboard", "Navigating to About"}

Message(n, text) == ToString(n) \o ": " \o text

NumberOf(line) ==
    CHOOSE n \in 1..MaxLogCalls : \E text \in LogTexts : line = Message(n, text)

\* The number of log calls made so far: the number of the latest line.
Calls(c) == IF c = << >> THEN 0 ELSE NumberOf(c[Len(c)])

LogInit ==
    /\ host = [p \in Sites |-> NotFound]
    /\ console = << >>
    /\ appRoot = << >>
    /\ views = << >>
    /\ viewers = << >>
    /\ pages = << >>

LogCall(text) ==
    /\ Calls(console) < MaxLogCalls
    /\ console' = Log(console, Message(Calls(console) + 1, text))
    /\ UNCHANGED <<host, appRoot, views, viewers, pages>>

LogNext == \E text \in LogTexts : LogCall(text)

LogSpec == LogInit /\ [][LogNext]_vars

(***************************************************************************)
(* AwaySpec: the user navigates away while a scan runs, either to the      *)
(* dashboard or the About text at any moment of the scan, or to a new      *)
(* Designs view near its end, so that two scans run side by side.  Every host answers   *)
(* every fetch.                                                            *)
(***************************************************************************)
AwayNext ==
    \/ OpenDesigns
    \/ \E r \in DOMAIN views : FetchSettled(r)
    \/ \E r \in DOMAIN views : JsonSettled(r)
    \/ \E r \in DOMAIN views : DesignsLoaded(r)
    \/ LeaveScan
    \/ ReopenDesigns

AwaySpec == InitOn(RenderHosts) /\ [][AwayNext]_vars

(***************************************************************************)
(* RenderSpec: two Designs views, the second made by Back or by the        *)
(* Designs button, with STL viewers in their detail panels, and the user   *)
(* leaving for the dashboard while viewers exist.  A container is used a   *)
(* second time only in the last Designs view.                              *)
(***************************************************************************)
RenderNext ==
    \/ ShowDesigns
    \/ \E r \in DOMAIN views : FetchSettled(r)
    \/ \E r \in DOMAIN views : JsonSettled(r)
    \/ \E r \in DOMAIN views : DesignsLoaded(r)
    \/ \E r \in DOMAIN views : \E i \in 1..Len(views[r].files) : SelectDesign(r, i)
    \/ \E r \in DOMAIN views : Back(r)
    \/ \E r \in DOMAIN views : ViewStlFresh(r)
    \/ \E r \in DOMAIN views : ViewStlAgain(r)
    \/ \E i \in DOMAIN viewers : LoadSucceeded(i)
    \/ \E i \in DOMAIN viewers : LoadFailed(i)
    \/ \E i \in DOMAIN viewers : Frame(i)
    \/ LeaveViewer

RenderSpec == InitOn(RenderHosts) /\ [][RenderNext]_vars

(***************************************************************************)
(* MalformedSpec: the Papers and the Designs view on hosts whose catalog   *)
(* and design files hold records with a field of unexpected type.          *)
(***************************************************************************)
MalformedNext ==
    \/ NavPage
    \/ LeavePapers
    \/ \E r \in DOMAIN views : FetchSettled(r)
    \/ \E r \in DOMAIN views : JsonSettled(r)
    \/ \E r \in DOMAIN views : DesignsLoaded(r)
    \/ \E r \in DOMAIN views : \E i \in 1..Len(views[r].files) : SelectDesign(r, i)
    \/ \E k \in DOMAIN pages : PapersFetched(k)
    \/ \E k \in DOMAIN pages : PapersParsed(k)
    \/ \E k \in DOMAIN pages : \E i \in 1..2 : SelectPaper(k, i)
    \/ \E k \in DOMAIN pages : PapersBack(k)

MalformedSpec == InitOn(MalformedHosts) /\ [][MalformedNext]_vars

(***************************************************************************)
(* ScoreSpec: the Papers view on catalogs of one record, for every score   *)
(* of ScoreRecords.                                                        *)
(***************************************************************************)
ScoreNext ==
    \/ ShowPapers
    \/ \E k \in DOMAIN pages : PapersFetched(k)
    \/ \E k \in DOMAIN pages : PapersParsed(k)
    \/ \E k \in DOMAIN pages : SelectPaper(k, 1)
    \/ \E k \in DOMAIN pages : PapersBack(k)

ScoreSpec == InitOn(ScoreHosts) /\ [][ScoreNext]_vars

Range(seq) == {seq[k] : k \in DOMAIN seq}

\* The place of a candidate path in the enumeration.
IndexOf == [p \in CandidateSet |-> CHOOSE k \in 1..NumCandidates : Candidates[k] = p]

\* The (folder, version, type) bucket of candidate k.
BucketOf(k) == (k - 1) \div (Len(periods) * Len(heights))

\* The files of the host.
Existing == {p \in DOMAIN host : host[p].net = "ok" /\ host[p].json = "object"}

\* A run is over once loadDesigns has returned.
Returned(r) == views[r].pc \in {"returned", "done"}

Succeeds(path) ==
    Response(host, path).net = "ok" /\ Response(host, path).json = "object"

Misses(path) == Response(host, path).net \in {"notfound", "neterror"}

InFlight(r, path) == \E q \in views[r].inflight : q.path = path

\* Run r resolves a miss in this step: a probe whose fetch the host answers
\* with a non-ok response or rejects leaves the probes in flight.
MissResolved(r, q) ==
    /\ q \in views[r].inflight
    /\ q.awaiting = "fetch"
    /\ Misses(q.path)
    /\ q \notin views'[r].inflight

FilePaths(r) == [i \in DOMAIN views[r].files |-> views[r].files[i].filePath]

(***************************************************************************)
(* C1.  The k-th fetch call of a run is on the k-th candidate path, the    *)
(* candidate paths are pairwise different, and a run that has returned has *)
(* made exactly 972 calls, the product of the sizes of the five sets: one  *)
(* probe per candidate path and none twice, whatever the host answered.    *)
(***************************************************************************)
C1_ProbeCount ==
    /\ NumCandidates = 972
    /\ NumCandidates = 3 * 3 * 3 * 6 * 6
    /\ Cardinality(CandidateSet) = NumCandidates
    /\ \A r \in DOMAIN views :
          /\ views[r].issued \in 1..NumCandidates
          /\ views[r].lastFetch = Candidates[views[r].issued]
          /\ Returned(r) => views[r].issued = 972

\* A run has returned on a host where one fetch was rejected and one file exists.
C1_Witness ==
    \E r \in DOMAIN views :
       /\ views[r].pc = "done"
       /\ \E p \in DOMAIN host : host[p] = NetError
       /\ \E p \in DOMAIN host : host[p].net = "ok"

(***************************************************************************)
(* C2.  The step that resolves a failed probe (non-ok response or rejected *)
(* fetch) adds no record and neither ends nor reorders the scan: it issues *)
(* the probe of the next candidate of the enumeration, or, after the last  *)
(* candidate, lets the run return.                                         *)
(***************************************************************************)
C2_FailureSkipped ==
    [][\A r \in DOMAIN views : \A q \in views[r].inflight :
          MissResolved(r, q) =>
             /\ views'[r].files = views[r].files
             /\ IF views[r].issued < NumCandidates
                   THEN /\ views'[r].pc = "scan"
                        /\ views'[r].issued = views[r].issued + 1
                        /\ views'[r].lastFetch = Candidates[views[r].issued + 1]
                        /\ views'[r].inflight =
                              {[path |-> views'[r].lastFetch, awaiting |-> "fetch"]}
                   ELSE /\ views'[r].pc = "returned"
                        /\ views'[r].issued = views[r].issued
                        /\ views'[r].inflight = {}]_vars

\* A rejected fetch in the middle of the enumeration is resolved and the scan
\* has gone on to the end.
C2_Witness ==
    \E r \in DOMAIN views :
       /\ host[BucketPath] = NetError
       /\ host[LastPath] = NotFound
       /\ views[r].pc = "done"
       /\ views[r].issued = NumCandidates

(***************************************************************************)
(* C3.  The records of a run are, at every moment, the existing files      *)
(* whose probes are resolved, each once and carrying its path, in the      *)
(* order of the candidate enumeration; so the result of a run that has     *)
(* returned is the subsequence of the enumeration whose probes succeeded,  *)
(* and two runs on the same host return the same sequence.                 *)
(***************************************************************************)
C3_ResultOrder ==
    /\ \A r \in DOMAIN views :
          LET paths == FilePaths(r)
              found == {p \in Existing :
                           IndexOf[p] <= views[r].issued /\ ~InFlight(r, p)}
          IN /\ Range(paths) = found
             /\ Len(paths) = Cardinality(found)
             /\ \A i, j \in DOMAIN paths :
                   i < j => IndexOf[paths[i]] < IndexOf[paths[j]]
             /\ Returned(r) => found = Existing
    /\ \A r1, r2 \in DOMAIN views :
          (Returned(r1) /\ Returned(r2)) => views[r1].files = views[r2].files

\* Two runs have returned on a host where the three varied files exist.
C3_Witness ==
    /\ Len(views) >= 2
    /\ \A r \in DOMAIN views : views[r].pc = "done" /\ Len(views[r].files) = 3

(***************************************************************************)
(* C4.  At most one probe of a run is in flight, and it is the one issued  *)
(* last: no fetch is called while an earlier probe of the run, its fetch   *)
(* or the parse of its body, is unresolved.                                *)
(***************************************************************************)
C4_OneInFlight ==
    \A r \in DOMAIN views :
       /\ Cardinality(views[r].inflight) <= 1
       /\ \A q \in views[r].inflight : q.path = views[r].lastFetch

\* The body of an existing file is being parsed while later candidates wait.
C4_Witness ==
    \E r \in DOMAIN views :
       /\ \E q \in views[r].inflight : q.awaiting = "json"
       /\ views[r].issued < NumCandidates

(***************************************************************************)
(* C5 as claimed.  A probe of the first or of the second bucket that is    *)
(* never answered is followed, in the end, by a probe of a later bucket.   *)
(***************************************************************************)
Stalled(r, q) ==
    /\ q \in views[r].inflight
    /\ q.awaiting = "fetch"
    /\ Response(host, q.path).net = "hang"

C5_OtherBucketsProbed ==
    \A p \in {FirstPath, BucketPath} :
       (Len(views) >= 1 /\ Stalled(1, [path |-> p, awaiting |-> "fetch"]))
          ~> (Len(views) >= 1 /\ BucketOf(views[1].issued) > BucketOf(IndexOf[p]))

(***************************************************************************)
(* C5 as amended.  While a probe that is never answered is outstanding it  *)
(* is the last probe of its run: no later probe, of its bucket or of any   *)
(* other, has been issued, the run has not returned and the view shows     *)
(* "Loading...".                                                           *)
(***************************************************************************)
C5_StallBlocksScan ==
    \A r \in DOMAIN views : \A q \in views[r].inflight :
       Stalled(r, q) =>
          /\ views[r].lastFetch = q.path
          /\ views[r].issued = IndexOf[q.path]
          /\ views[r].inflight = {q}
          /\ views[r].pc = "scan"
          /\ views[r].list = LoadingList

\* The first probe of the second bucket is never answered.
C5_Witness ==
    \E r \in DOMAIN views :
       /\ Stalled(r, [path |-> BucketPath, awaiting |-> "fetch"])
       /\ views[r].issued > Len(periods) * Len(heights)

(***************************************************************************)
(* C6.  No exception leaves loadDesigns, and a run that has returned on a  *)
(* host with none of the candidate files has returned the empty sequence;  *)
(* once its then-callback has run, the list element shows "No designs      *)
(* found." and nothing else.                                               *)
(***************************************************************************)
C6_EmptyResult ==
    \A r \in DOMAIN views :
       /\ views[r].pc # "rejected"
       /\ (Returned(r) /\ Existing = {}) => views[r].files = << >>
       /\ (views[r].pc = "done" /\ views[r].files = << >>) =>
             views[r].list = [LoadingList EXCEPT !.kind = "none"]
       /\ views[r].list.kind = "none" =>
             views[r].pc = "done" /\ views[r].files = << >>

\* A run on a host that rejects a fetch and has no file shows "No designs found."
C6_Witness ==
    \E r \in DOMAIN views :
       /\ views[r].list.kind = "none"
       /\ Existing = {}
       /\ \E p \in DOMAIN host : host[p] = NetError

(***************************************************************************)
(* C7 as claimed.  The step that resolves a probe miss changes nothing in  *)
(* the view and leaves no error entry for the missed path in the log.      *)
(***************************************************************************)
IsErrorEntry(line, path) ==
    LET head == "Error fetching " \o path \o ": " IN
    Len(line) >= Len(head) /\ SubSeq(line, 1, Len(head)) = head

ErrorEntries(c, path) == Cardinality({k \in DOMAIN c : IsErrorEntry(c[k], path)})

ViewUntouched(r) ==
    /\ views'[r].list = views[r].list
    /\ views'[r].files = views[r].files
    /\ appRoot' = appRoot
    /\ viewers' = viewers

C7_MissNeverLogged ==
    [][\A r \in DOMAIN views : \A q \in views[r].inflight :
          MissResolved(r, q) =>
             ViewUntouched(r) /\ ErrorEntries(console', q.path) = 0]_vars

(***************************************************************************)
(* C7 as amended.  The step that resolves a probe miss changes nothing in  *)
(* the view.  A non-ok response leaves no error entry for the path in the  *)
(* log; a rejected fetch appends one "Error fetching <path>: <error>" line *)
(* to the log.                                                             *)
(***************************************************************************)
C7_MissContained ==
    [][\A r \in DOMAIN views : \A q \in views[r].inflight :
          MissResolved(r, q) =>
             /\ ViewUntouched(r)
             /\ ErrorEntries(console', q.path) =
                   IF Response(host, q.path).net = "neterror" THEN 1 ELSE 0]_vars

\* The log shows the error line of a rejected fetch while the list still loads.
C7_Witness ==
    \E r \in DOMAIN views :
       /\ views[r].list = LoadingList
       /\ host[BucketPath] = NetError
       /\ ErrorEntries(console, BucketPath) = 1

EndsWith(s, tail) ==
    Len(s) >= Len(tail) /\ SubSeq(s, Len(s) - Len(tail) + 1, Len(s)) = tail

(***************************************************************************)
(* C8.  The filePath of every record of a run is the candidate path whose  *)
(* probe succeeded, which ends in ".json", whatever file_path the file     *)
(* carries; and the url of every STLViewer.render invocation is the        *)
(* filePath of the design of its detail panel with the trailing ".json"    *)
(* replaced by ".stl".                                                     *)
(***************************************************************************)
C8_MeshLocator ==
    /\ StlPath("designs/x/a_v1_20mm_30mm.json") = "designs/x/a_v1_20mm_30mm.stl"
    /\ \A r \in DOMAIN views : \A i \in DOMAIN views[r].files :
          LET path == views[r].files[i].filePath IN
          /\ path \in Existing
          /\ IndexOf[path] <= views[r].issued
          /\ EndsWith(path, ".json")
    /\ \A i \in DOMAIN viewers :
          LET file == views[viewers[i].container].list.panel[1].file
              stem == SubSeq(file, 1, Len(file) - 5)
          IN /\ file \in Range(FilePaths(viewers[i].container))
             /\ file = stem \o ".json"
             /\ viewers[i].url = stem \o ".stl"

\* The viewer was invoked for a design whose file carries a file_path of its own.
C8_Witness ==
    \E i \in DOMAIN viewers :
       /\ host[BucketPath] = OkObject(FullData)
       /\ views[viewers[i].container].list.panel[1].file = BucketPath

(***************************************************************************)
(* C9.  The step in which the mesh load of an invocation fails leaves the  *)
(* error indicator as the only content of its container, and a failed      *)
(* invocation has never rendered: its animate was never called, no frame   *)
(* callback of it is scheduled and no mesh is in its scene.                *)
(***************************************************************************)
C9_FailedNeverRenders ==
    [][\A i \in DOMAIN viewers' :
          viewers'[i].status = "failed" =>
             /\ viewers'[i].started = 0
             /\ viewers'[i].scheduled = 0
             /\ viewers'[i].renders = 0
             /\ viewers'[i].updates = 0
             /\ viewers'[i].frames = 0
             /\ "mesh" \notin viewers'[i].scene
             /\ (i \in DOMAIN viewers /\ viewers[i].status = "loading") =>
                   views'[viewers[i].container].list.stlViewer = << ErrorIndicator >>]_vars

\* A mesh load has failed and its container shows the error indicator.
C9_Witness ==
    \E i \in DOMAIN viewers :
       /\ viewers[i].status = "failed"
       /\ views[viewers[i].container].list.stlViewer = << ErrorIndicator >>

(***************************************************************************)
(* C10.  An invocation whose load is outstanding has not rendered.  The    *)
(* step in which its load succeeds adds the mesh to its scene and calls    *)
(* animate once, and no later step calls it again from the loader.  From   *)
(* then on each display refresh renders the scene once, updates the        *)
(* controller once when there is one, and leaves exactly one frame         *)
(* callback scheduled.                                                     *)
(***************************************************************************)
C10_RenderLoop ==
    [][\A i \in DOMAIN viewers' :
          LET new == viewers'[i] IN
          /\ new.status = "loading" =>
                /\ new.started = 0 /\ new.scheduled = 0 /\ new.renders = 0
                /\ "mesh" \notin new.scene
          /\ new.status = "loaded" =>
                /\ new.started = 1 /\ new.scheduled = 1
                /\ "mesh" \in new.scene
                /\ new.renders = new.frames + 1
                /\ new.updates = IF new.controls THEN new.renders ELSE 0
          /\ (i \in DOMAIN viewers /\ new.frames # viewers[i].frames) =>
                /\ viewers[i].status = "loaded"
                /\ new.frames = viewers[i].frames + 1
                /\ new.renders = viewers[i].renders + 1
                /\ new.updates = viewers[i].updates + (IF new.controls THEN 1 ELSE 0)
                /\ new.scheduled = 1]_vars

\* A render loop with a controller has run through its frames.
C10_Witness ==
    \E i \in DOMAIN viewers :
       /\ viewers[i].controls
       /\ viewers[i].frames = MaxFrames
       /\ viewers[i].updates = MaxFrames + 1

(***************************************************************************)
(* C11.  Invocations of STLViewer.render on different containers share no  *)
(* state: a step in which the load of one invocation succeeds or fails, or *)
(* in which one of its frames runs, leaves the closure of every invocation *)
(* on another container (scene, controller, loop state, counters) and the  *)
(* content of that container as they were; and a container used by one     *)
(* invocation holds the canvas of that invocation, or the error indicator  *)
(* once its own load has failed.                                           *)
(***************************************************************************)
ContainerOf(i) == views[viewers[i].container].list.stlViewer

C11_IndependentViewers ==
    [][\A i, j \in DOMAIN viewers :
          (i # j /\ viewers[i].container # viewers[j].container) =>
             /\ viewers'[i] # viewers[i] =>
                   /\ viewers'[j] = viewers[j]
                   /\ views'[viewers[j].container].list.stlViewer = ContainerOf(j)
             /\ ContainerOf(j) = IF viewers[j].status = "failed"
                                    THEN << ErrorIndicator >> ELSE << Canvas(j) >>]_vars

\* Two invocations on two containers: the earlier one has failed after the
\* later one was made, and the later one has loaded and run a frame.
C11_Witness ==
    /\ Len(viewers) = 2
    /\ viewers[1].container # viewers[2].container
    /\ viewers[1].status = "failed"
    /\ viewers[2].status = "loaded" /\ viewers[2].frames > 0
    /\ ContainerOf(2) = << Canvas(2) >>

(***************************************************************************)
(* C12.  The step in which the mesh load of an invocation fails changes    *)
(* the content of that invocation's container and the invocation's own     *)
(* status, and nothing else: the detail panel around the container (title, *)
(* geometry, file, parameters, mesh path; the buttons are part of the      *)
(* panel's markup) is as before, as are the root, the log, the pages and   *)
(* every other invocation.  The failure arrives at the onError callback of *)
(* the invocation, in a step of its own, after render has returned to the  *)
(* click handler that called it.                                           *)
(***************************************************************************)
FailsNow(i) == viewers[i].status = "loading" /\ viewers'[i].status = "failed"

C12_FailureStaysInContainer ==
    [][\A i \in DOMAIN viewers :
          FailsNow(i) =>
             LET c == viewers[i].container IN
             /\ views[c].list.kind = "detail"
             /\ views' = [views EXCEPT ![c].list.stlViewer = << ErrorIndicator >>]
             /\ views'[c].list.panel = views[c].list.panel
             /\ viewers' = [viewers EXCEPT ![i].status = "failed"]
             /\ UNCHANGED <<host, console, appRoot, pages>>]_vars

\* The mesh of a design with parameters failed to load: the panel still shows
\* the design around the error indicator.
C12_Witness ==
    \E i \in DOMAIN viewers :
       LET l == views[viewers[i].container].list IN
       /\ viewers[i].status = "failed"
       /\ l.kind = "detail"
       /\ l.panel[1].title = "Patch antenna array"
       /\ l.panel[1].parameters = FullData.parameters
       /\ l.stlViewer = << ErrorIndicator >>

(***************************************************************************)
(* C13.  A run whose view the user has navigated away from is not         *)
(* cancelled: as long as it has not finished, its next step is pending     *)
(* (the continuation of an outstanding probe that the host answers, or its *)
(* then-callback), and when it has returned it has issued the probes of    *)
(* all 972 candidates.  Its                                                *)
(* result is discarded: a step of such a run changes its own, detached,    *)
(* list element and the log, and never the root, the view or page on       *)
(* display, another Designs view or a viewer.                              *)
(***************************************************************************)
Away(r) == r \in DOMAIN views /\ ~Shown(r)

C13_AwayRunCompletes ==
    [][\A r \in DOMAIN views :
          Away(r) =>
             /\ views[r].pc # "done" => Pending(r)
             /\ views'[r].pc # "done" => views'[r].pc \in {"scan", "returned"}
             /\ Returned(r) => views[r].issued = NumCandidates
             /\ views'[r].pc = "returned" => views'[r].issued = NumCandidates
             /\ views'[r] # views[r] =>
                   /\ appRoot' = appRoot
                   /\ pages' = pages
                   /\ viewers' = viewers
                   /\ \A d \in DOMAIN views : d # r => views'[d] = views[d]]_vars

\* The first run has finished and filled its detached list while the second
\* Designs view, opened during the first run, is on display and still loading.
C13_Witness ==
    /\ Len(views) = 2
    /\ Shown(2)
    /\ views[1].pc = "done" /\ views[1].issued = NumCandidates
    /\ views[1].list.kind = "items"
    /\ views[2].list = LoadingList /\ views[2].issued > LateProbes + 1

(***************************************************************************)
(* C14.  A render loop is live while one of its frame callbacks is         *)
(* scheduled.  No step stops a live loop: not a press of a navigation      *)
(* button, not Back, not a later call of STLViewer.render on the same or   *)
(* on another container, not a frame.  So the number of live loops never   *)
(* decreases, and the step in which a mesh load succeeds raises it by one. *)
(***************************************************************************)
Live(ws) == {i \in DOMAIN ws : ws[i].scheduled > 0}

C14_LoopsNeverStop ==
    [][/\ \A i \in Live(viewers) : i \in Live(viewers')
       /\ Cardinality(Live(viewers')) >= Cardinality(Live(viewers))
       /\ \A i \in DOMAIN viewers :
             (viewers[i].status = "loading" /\ viewers'[i].status = "loaded") =>
                Cardinality(Live(viewers')) = Cardinality(Live(viewers)) + 1
       /\ \A i \in DOMAIN viewers' :
             viewers'[i].status = "loaded" => i \in Live(viewers')]_vars

\* Two loops are live, in the panels of two Designs views, and the user has
\* left for the dashboard.
C14_Witness ==
    /\ Cardinality(Live(viewers)) = 2
    /\ viewers[1].container # viewers[2].container
    /\ \E k \in DOMAIN pages : appRoot = Root("dashboard", k)

(***************************************************************************)
(* C15.  The step of the Back button puts a newly constructed DesignsView  *)
(* in the place of the view it was pressed in.  The new view has nothing   *)
(* of the old one: its list element shows "Loading...", its array of       *)
(* records is empty, and its run starts at the first candidate; the old    *)
(* view is left as it was.  The new run is complete: when it has returned  *)
(* it has probed all 972 candidates.                                       *)
(***************************************************************************)
BackPressed(r) ==
    /\ Shown(r)
    /\ views[r].list.kind = "detail"
    /\ Len(views') = Len(views) + 1
    /\ console'[Len(console') - 2] # "Navigating to Designs"

C15_BackStartsAfresh ==
    [][/\ \A r \in DOMAIN views :
             BackPressed(r) =>
                LET new == views'[Len(views')] IN
                /\ appRoot' = Root("designs", Len(views'))
                /\ new.list = LoadingList
                /\ new.files = << >>
                /\ new.pc = "scan"
                /\ new.issued = 1
                /\ new.lastFetch = Candidates[1]
                /\ new.inflight = {[path |-> Candidates[1], awaiting |-> "fetch"]}
                /\ \A d \in DOMAIN views : views'[d] = views[d]
       /\ \A r \in DOMAIN views' :
             views'[r].pc = "returned" => views'[r].issued = NumCandidates]_vars

\* Back was pressed in the detail panel of a view that had found three designs:
\* the second view is the one on display and has just started its run.
C15_Witness ==
    /\ Len(views) = 2
    /\ Shown(2)
    /\ views[1].list.kind = "detail" /\ Len(views[1].files) = 3
    /\ views[2].issued = 1
    /\ console[Len(console) - 2] = "Showing details for design: Patch antenna array"

(***************************************************************************)
(* C16.  After n calls of log the console holds min(n, 10) lines, never    *)
(* more than 10, and they are the messages of the latest min(n, 10) calls  *)
(* in call order.  One call appends its message at the end and removes     *)
(* lines from the front only: what it leaves is a suffix of the old lines  *)
(* followed by the new message.                                            *)
(***************************************************************************)
Least(a, b) == IF a < b THEN a ELSE b

C16_LogKeepsLastTen ==
    [][LET n == Calls(console')
           kept == Len(console')
       IN /\ n = Calls(console) + 1
          /\ kept <= 10
          /\ kept = Least(n, 10)
          /\ \A k \in 1..kept : NumberOf(console'[k]) = n - kept + k
          /\ \E text \in LogTexts : console'[kept] = Message(n, text)
          /\ \E d \in 0..Len(console) :
                SubSeq(console', 1, kept - 1) = SubSeq(console, d + 1, Len(console))]_vars

\* Thirteen calls were made: the console holds the messages of calls 4 to 13.
C16_Witness ==
    /\ Len(console) = 10
    /\ Calls(console) = MaxLogCalls
    /\ NumberOf(console[1]) = MaxLogCalls - 9

(***************************************************************************)
(* C17.  The root container always holds exactly one child.  A step that   *)
(* makes a new view or content (a press of Dashboard, Papers, Designs or   *)
(* About, or a Back button) leaves the new one as the only child of the    *)
(* root, with nothing of what was there before; every other step leaves    *)
(* the root as it is.                                                      *)
(***************************************************************************)
NewestChild ==
    IF Len(views') > Len(views) THEN Child("designs", Len(views'))
    ELSE Child(pages'[Len(pages')].kind, Len(pages'))

C17_RootReplaced ==
    [][/\ Len(appRoot) = 1 /\ Len(appRoot') = 1
       /\ IF Len(views') > Len(views) \/ Len(pages') > Len(pages)
             THEN /\ appRoot' = << NewestChild >>
                  /\ appRoot'[1] # appRoot[1]
             ELSE appRoot' = appRoot]_vars

\* Dashboard, then Designs, then Papers, then About: the root holds the About
\* text only.
C17_Witness ==
    /\ Len(pages) = 3 /\ Len(views) = 1
    /\ pages[2].kind = "papers"
    /\ pages[3].kind = "about"
    /\ appRoot = << Child("about", 3) >>

(***************************************************************************)
(* C18.  A papers view makes one fetch call, of the catalog, and no other. *)
(* It shows the error message, alone in its list element, exactly when its *)
(* promise chain has ended on a host whose fetch is rejected or whose body *)
(* is not JSON (the records of the catalogs of PapersSpec have fields of   *)
(* the expected types); from then on the view does not change, so nothing  *)
(* is retried.  The step that puts up the message logs one line and        *)
(* changes nothing else: the root, the Designs views, the viewers and the  *)
(* other pages are as before, and the navigation goes on from there.       *)
(***************************************************************************)
CatalogFails ==
    \/ Response(host, PapersPath).net = "neterror"
    \/ Response(host, PapersPath).json \in {"invalid", "none"}

IsPapers(ps, k) == k \in DOMAIN ps /\ ps[k].kind = "papers"

C18_OneFetchOneError ==
    [][\A k \in DOMAIN pages' :
          IsPapers(pages', k) =>
             LET new == pages'[k] IN
             /\ new.fetches = 1
             /\ new.list.kind = "error" <=> (new.pc = "done" /\ CatalogFails)
             /\ new.list.kind = "error" => new.list = PapersList("error", NoRows)
             /\ (IsPapers(pages, k) /\ pages[k].list.kind = "error") => new = pages[k]
             /\ (IsPapers(pages, k) /\ pages[k].list.kind # "error"
                    /\ new.list.kind = "error") =>
                   /\ UNCHANGED <<host, appRoot, views, viewers>>
                   /\ pages' = [pages EXCEPT ![k] = new]
                   /\ \E e \in {NetErrorText, JsonErrorText} :
                         console' = Log(console, "Failed to load papers.json: " \o e)]_vars

\* The fetch of the catalog was rejected; the user went on to the Designs view,
\* which has shown its list, and from there to another page.
C18_Witness ==
    /\ host[PapersPath] = NetError
    /\ Len(pages) = 3
    /\ pages[2].kind = "papers" /\ pages[2].list.kind = "error"
    /\ Len(views) = 1 /\ views[1].list.kind = "items"

(***************************************************************************)
(* C19.  A papers view whose catalog is a non-empty array of n records     *)
(* ends with n rows, in the order of the array.  Row i carries the title   *)
(* of record i, the names of its authors joined by ", ", and a PDF link    *)
(* exactly when the resolved pdf (pdf_path, else openAccessPdf.url) is not *)
(* empty.  The catalog [{"title":"T"}] gives one row with title "T",       *)
(* empty author text and no PDF link.                                      *)
(***************************************************************************)
ExpectedTitle(record) ==
    CASE record = TitleOnly -> "T"
      [] record = FullPaper -> "Water-based absorber"
      [] record = OpenAccessPaper -> "Split rings"
      [] record = NoLinkPaper -> "No link"
      [] OTHER -> ""

ExpectedAuthors(record) ==
    CASE record = FullPaper -> "A. Lee, B. Cho"
      [] record = OpenAccessPaper -> "C. Diaz"
      [] record = NoLinkPaper -> "D. Eco, "
      [] OTHER -> ""

ExpectedLink(record) ==
    CASE record = FullPaper -> << "papers/p1.pdf" >>
      [] record = OpenAccessPaper -> << "https://example.org/p2.pdf" >>
      [] OTHER -> << >>

Catalog == Response(host, PapersPath)

C19_RowsFollowCatalog ==
    \A k \in DOMAIN pages :
       IsPapers(pages, k) =>
          LET l == pages[k].list
              nonEmpty == Catalog.json = "array" /\ Len(Catalog.data) > 0
          IN /\ (pages[k].pc = "done" /\ nonEmpty) => l.kind \in {"items", "detail"}
             /\ l.kind = "items" =>
                   /\ nonEmpty
                   /\ Len(l.rows) = Len(Catalog.data)
                   /\ \A i \in 1..Len(l.rows) :
                         /\ l.rows[i].title = ExpectedTitle(Catalog.data[i])
                         /\ l.rows[i].authors = ExpectedAuthors(Catalog.data[i])
                         /\ l.rows[i].pdf = ExpectedLink(Catalog.data[i])
                         /\ l.rows[i].pdf = << >> <=> PdfLink(l.rows[i].paper) = ""
             /\ (l.kind = "items" /\ Catalog.data = << TitleOnly >>) =>
                   /\ Len(l.rows) = 1
                   /\ l.rows[1].title = "T"
                   /\ l.rows[1].authors = ""
                   /\ l.rows[1].pdf = << >>

\* The list of a catalog of three records, two of them with a PDF link.
C19_Witness ==
    \E k \in DOMAIN pages :
       /\ IsPapers(pages, k)
       /\ pages[k].list.kind = "items"
       /\ Len(pages[k].list.rows) = 3
       /\ pages[k].list.rows[2].pdf # << >>
       /\ pages[k].list.rows[3].pdf = << >>

(***************************************************************************)
(* C20.  A Design and a Paper made from an object that has none of the     *)
(* fields the constructors read (the empty object, or an object with other *)
(* fields only) take the default in every field: the empty string in the   *)
(* text fields, the empty array in authors, the empty object in parameters *)
(* and extracted, 0 in citationCount and score.  A Design keeps the path   *)
(* it was given as filePath.  So do the records the views hold for such    *)
(* files and catalog entries.                                              *)
(***************************************************************************)
DefaultDesign ==
    [paperId |-> "", title |-> "", geometryType |-> "", parameters |-> << >>,
     filePath |-> "", generatedAt |-> "", manufacturing |-> "", scale |-> ""]

DefaultPaper ==
    [id |-> "", title |-> "", year |-> "", authors |-> << >>, venue |-> "",
     citationCount |-> 0, url |-> "", pdf |-> "", extracted |-> << >>, score |-> 0]

Bare(data) ==
    DOMAIN data \cap (DOMAIN FullData \cup DOMAIN FullPaper \cup DOMAIN OpenAccessPaper) = {}

C20_DefaultsWhenFieldsMissing ==
    /\ \A data \in {EmptyObject, Unrelated} :
          /\ NewDesign(data, "") = DefaultDesign
          /\ NewDesign(data, FirstPath) = [DefaultDesign EXCEPT !.filePath = FirstPath]
          /\ NewPaper(data) = DefaultPaper
    /\ \A r \in DOMAIN views : \A i \in DOMAIN views[r].files :
          LET d == views[r].files[i] IN
          Bare(Response(host, d.filePath).data) =>
             d = [DefaultDesign EXCEPT !.filePath = d.filePath]
    /\ \A k \in DOMAIN pages :
          (IsPapers(pages, k) /\ pages[k].list.kind = "items") =>
             \A i \in DOMAIN pages[k].list.rows :
                Bare(Catalog.data[i]) => pages[k].list.rows[i].paper = DefaultPaper

\* The list of a catalog of two records without any of the fields, and the
\* Designs view of a host whose design file is the empty object.
C20_Witness ==
    /\ Catalog = OkArray(<< EmptyObject, Unrelated >>)
    /\ \E k \in DOMAIN pages :
          /\ IsPapers(pages, k)
          /\ pages[k].list.kind = "items"
          /\ pages[k].list.rows[2].paper = DefaultPaper
    /\ \E r \in DOMAIN views :
          /\ Len(views[r].files) = 1
          /\ Bare(Response(host, views[r].files[1].filePath).data)

(***************************************************************************)
(* C21.  A record with a field of unexpected type is never raised as an    *)
(* error.  A papers view whose catalog is a non-empty array ends with its  *)
(* list, never with the error message, one row per record; a Paper made    *)
(* from a record whose relevance_score or authors is of unexpected type    *)
(* has the default there (score 0, no authors) and its row shows neither.  *)
(* No exception leaves the then-callback of a Designs view, which ends     *)
(* with one row per design; a Design made from a file whose geometry_type  *)
(* is of unexpected type has the empty geometry tag.                       *)
(***************************************************************************)
C21_MalformedDefaulted ==
    /\ \A k \in DOMAIN pages :
          (IsPapers(pages, k) /\ pages[k].pc = "done"
              /\ Catalog.json = "array" /\ Len(Catalog.data) > 0) =>
             LET l == pages[k].list IN
             /\ l.kind \in {"items", "detail"}
             /\ l.kind = "items" =>
                   /\ Len(l.rows) = Len(Catalog.data)
                   /\ \A i \in DOMAIN l.rows :
                         LET paper == l.rows[i].paper IN
                         /\ Mistyped(Catalog.data[i], "relevance_score") =>
                               /\ ~Mistyped(paper, "score")
                               /\ paper.score = 0
                               /\ l.rows[i].score = ""
                         /\ Mistyped(Catalog.data[i], "authors") =>
                               /\ ~Mistyped(paper, "authors")
                               /\ paper.authors = EmptyArray
                               /\ l.rows[i].authors = ""
    /\ \A r \in DOMAIN views :
          /\ views[r].pc # "threw"
          /\ views[r].list.kind = "items" => Len(views[r].list.rows) = Len(views[r].files)
          /\ \A i \in DOMAIN views[r].files :
                LET d == views[r].files[i] IN
                Mistyped(Response(host, d.filePath).data, "geometry_type") =>
                   /\ ~Mistyped(d, "geometryType")
                   /\ d.geometryType = ""

(***************************************************************************)
(* C22.  The score text of a paper, in its row and in its detail panel, is *)
(* the empty string when the record has no relevance_score or the score 0. *)
(* For any other score it is "[", a number written with one digit after    *)
(* the point, and "]": the sign of the score, its whole part without       *)
(* leading zeros, the point and one digit, and the number written is the   *)
(* multiple of 0.1 nearest to the score (the one of larger magnitude when  *)
(* two are equally near).  The score 7.0 gives "[7.0]".                    *)
(***************************************************************************)
DigitTexts == [d \in 0..9 |-> ToString(d)]

IsDigits(s) == Len(s) > 0 /\ \A i \in 1..Len(s) : SubSeq(s, i, i) \in Range(DigitTexts)

DigitOf(c) == CHOOSE d \in 0..9 : DigitTexts[d] = c

RECURSIVE NumberOfDigits(_)
NumberOfDigits(s) ==
    IF Len(s) = 0 THEN 0
    ELSE 10 * NumberOfDigits(SubSeq(s, 1, Len(s) - 1)) + DigitOf(SubSeq(s, Len(s), Len(s)))

\* text is the score x (in hundredths) with one decimal, in brackets.
OneDecimalInBrackets(text, x) ==
    LET body == SubSeq(text, 2, Len(text) - 1)
        signed == Len(body) > 0 /\ SubSeq(body, 1, 1) = "-"
        digits == IF signed THEN SubSeq(body, 2, Len(body)) ELSE body
        n == Len(digits)
        whole == SubSeq(digits, 1, n - 2)
        tenth == SubSeq(digits, n, n)
        magnitude == IF x < 0 THEN 0 - x ELSE x
    IN /\ Len(text) >= 5
       /\ SubSeq(text, 1, 1) = "[" /\ SubSeq(text, Len(text), Len(text)) = "]"
       /\ signed <=> x < 0
       /\ n >= 3 /\ SubSeq(digits, n - 1, n - 1) = "."
       /\ IsDigits(whole) /\ IsDigits(tenth)
       /\ Len(whole) > 1 => SubSeq(whole, 1, 1) # "0"
       /\ 10 * (10 * NumberOfDigits(whole) + DigitOf(tenth)) - magnitude \in -4..5

ScoreOf(record) ==
    IF "relevance_score" \in DOMAIN record THEN record["relevance_score"] ELSE 0

ScoreTextRight(text, record) ==
    /\ ScoreOf(record) = 0 => text = ""
    /\ ScoreOf(record) # 0 => OneDecimalInBrackets(text, ScoreOf(record))
    /\ ScoreOf(record) = 700 => text = "[7.0]"

C22_DisplayScore ==
    \A k \in DOMAIN pages :
       IsPapers(pages, k) =>
          LET l == pages[k].list IN
          /\ pages[k].pc = "done" => l.kind \in {"items", "detail"}
          /\ l.kind = "items" =>
                /\ l.rows[1].paper.score = ScoreOf(Catalog.data[1])
                /\ ScoreTextRight(l.rows[1].score, Catalog.data[1])
          /\ l.kind = "detail" => ScoreTextRight(l.panel[1].score, Catalog.data[1])

\* The row of a paper of score 7.0 is shown.
C22_Witness ==
    \E k \in DOMAIN pages :
       /\ IsPapers(pages, k)
       /\ pages[k].list.kind = "items"
       /\ ScoreOf(Catalog.data[1]) = 700
       /\ pages[k].list.rows[1].score = "[7.0]"

(***************************************************************************)
(* C23.  STLViewer.render is called by the View STL button and by nothing  *)
(* else.  A step makes at most one invocation, and the step that makes one *)
(* is a click of View STL in the detail panel of the Designs view on       *)
(* display: it logs "Loading STL: " and the mesh path of the panel, the    *)
(* invocation is on the container of that panel, for that path, with its   *)
(* load outstanding, and the container holds its canvas.  Conversely the   *)
(* step that logs the line of a click makes exactly one invocation.  The   *)
(* step that enters a detail panel makes none: the panel's container is    *)
(* empty, no invocation is on it, so no load and no render loop of it.     *)
(***************************************************************************)
ClickLogged ==
    /\ console' # console
    /\ Len(console'[Len(console')]) >= 13
    /\ SubSeq(console'[Len(console')], 1, 13) = "Loading STL: "

C23_OnlyViewStlRenders ==
    [][/\ Len(viewers') \in {Len(viewers), Len(viewers) + 1}
       /\ ClickLogged <=> Len(viewers') = Len(viewers) + 1
       /\ Len(viewers') = Len(viewers) + 1 =>
             LET i == Len(viewers')
                 r == viewers'[i].container
             IN /\ Shown(r)
                /\ views[r].list.kind = "detail"
                /\ viewers'[i].url = views[r].list.panel[1].stlPath
                /\ viewers'[i].status = "loading" /\ viewers'[i].scheduled = 0
                /\ console' = Log(console, "Loading STL: " \o viewers'[i].url)
                /\ views' = [views EXCEPT ![r].list.stlViewer = << Canvas(i) >>]
                /\ SubSeq(viewers', 1, Len(viewers)) = viewers
       /\ \A r \in DOMAIN views :
             (views[r].list.kind # "detail" /\ views'[r].list.kind = "detail") =>
                /\ viewers' = viewers
                /\ views'[r].list.stlViewer = NoChildren
                /\ \A i \in DOMAIN viewers' : viewers'[i].container # r]_vars

\* View STL was clicked twice in one detail panel: there are two invocations,
\* both on the container of that panel.
C23_Witness ==
    /\ Len(viewers) = 2
    /\ viewers[1].container = viewers[2].container
    /\ views[viewers[2].container].list.kind = "detail"

(***************************************************************************)
(* C24.  A Designs view shows "Loading..." and nothing else as long as its *)
(* run has a probe outstanding or a candidate it has not probed yet: when  *)
(* its list element shows anything else, all 972 probes are issued and     *)
(* resolved.  On a host that answers every fetch (with a file, not-found   *)
(* or an error), the view reaches one of the two terminal states and stays *)
(* there: the list, with one row per record, when the run found a file,    *)
(* and "No designs found." when it found none.  A probe that is never      *)
(* answered stays outstanding, and while it is the view shows "Loading...".*)
(***************************************************************************)
Answering == \A p \in DOMAIN host : host[p].net # "hang"

Terminal(r) ==
    \/ /\ views[r].list.kind = "items"
       /\ views[r].files # << >>
       /\ Len(views[r].list.rows) = Len(views[r].files)
    \/ /\ views[r].list = [LoadingList EXCEPT !.kind = "none"]
       /\ views[r].files = << >>

C24_LoadingUntilResolved ==
    /\ [](\A r \in DOMAIN views :
            /\ views[r].pc \in {"scan", "returned"} => views[r].list = LoadingList
            /\ views[r].list # LoadingList =>
                  /\ views[r].issued = NumCandidates
                  /\ views[r].inflight = {}
                  /\ Terminal(r))
    /\ [][\A r \in DOMAIN views :
             /\ Terminal(r) => views'[r] = views[r]
             /\ \A q \in views[r].inflight :
                   Stalled(r, q) => q \in views'[r].inflight /\ views'[r].list = LoadingList]_vars
    /\ (Answering /\ views # << >>) ~> (views # << >> /\ Terminal(1))

\* The run has found files on a host that answers every fetch, and the view
\* shows their rows.
C24_Witness ==
    /\ Answering
    /\ views # << >>
    /\ views[1].list.kind = "items"
    /\ Len(views[1].list.rows) = 2
    /\ views[1].issued = NumCandidates

(***************************************************************************)
(* C25.  A container that STLViewer.render was called on more than once    *)
(* shows the content of the latest of these invocations, whatever the      *)
(* earlier ones do afterwards: its canvas, or the error indicator once the *)
(* load of that latest invocation itself has failed.                       *)
(***************************************************************************)
LatestOn(r) ==
    CHOOSE j \in DOMAIN viewers :
       /\ viewers[j].container = r
       /\ \A i \in DOMAIN viewers : viewers[i].container = r => i <= j

C25_LaterCanvasStays ==
    \A i \in DOMAIN viewers :
       LET r == viewers[i].container
           j == LatestOn(r)
       IN i < j =>
             views[r].list.stlViewer =
                IF viewers[j].status = "failed" THEN << ErrorIndicator >>
                ELSE << Canvas(j) >>

(***************************************************************************)
(* C26.  Runs of different Designs views that are under way at the same    *)
(* time do not touch each other.  A step changes the closure of at most    *)
(* one view; a step that adds to the records of a run adds one record, at  *)
(* the end, for the probe that this run has outstanding, and a step that   *)
(* fills a list element fills the one of the run that has returned, from   *)
(* the records of that run.  So the records of a run are at every moment   *)
(* the existing files among the probes it has resolved, each once, and the *)
(* result of a run that has returned is every existing file exactly once.  *)
(***************************************************************************)
OwnRows(r) ==
    views[r].list.kind = "items" =>
       views[r].list.rows = [i \in DOMAIN views[r].files |-> Row(views[r].files[i])]

C26_RunsIsolated ==
    /\ [](\A r \in DOMAIN views :
            LET paths == FilePaths(r) IN
            /\ Len(paths) = Cardinality(Range(paths))
            /\ Range(paths) =
                  {p \in Existing : IndexOf[p] <= views[r].issued /\ ~InFlight(r, p)}
            /\ Returned(r) => Range(paths) = Existing
            /\ OwnRows(r))
    /\ [][\A r \in DOMAIN views :
             /\ views'[r] # views[r] =>
                   \A d \in DOMAIN views : d # r => views'[d] = views[d]
             /\ views'[r].files # views[r].files =>
                   /\ Len(views'[r].files) = Len(views[r].files) + 1
                   /\ SubSeq(views'[r].files, 1, Len(views[r].files)) = views[r].files
                   /\ InFlight(r, views'[r].files[Len(views'[r].files)].filePath)
             /\ views'[r].list # views[r].list =>
                   /\ views[r].pc = "returned"
                   /\ views'[r].files = views[r].files]_vars

\* Two runs are under way on a host with two files: the second run has found
\* the first file while the first run still waits for the body of the last.
C26_Witness ==
    /\ Len(views) = 2
    /\ views[1].pc = "scan" /\ views[2].pc = "scan"
    /\ InFlight(1, LastPath)
    /\ Len(views[1].files) = 1
    /\ Len(views[2].files) = 1

(***************************************************************************)
(* C27.  A probe that the host answers with an ok response whose body is   *)
(* not JSON, or is the JSON value null, adds no record.  The step in which *)
(* the body settles leaves the records and the list element as they are,   *)
(* logs one "Error fetching" line for the path, and issues the probe of    *)
(* the next candidate, or lets the run return after the last one.  No      *)
(* exception leaves loadDesigns, and no record of a run is for such a      *)
(* path.                                                                   *)
(***************************************************************************)
Unusable(path) ==
    Response(host, path).net = "ok" /\ Response(host, path).json \in {"invalid", "null"}

BodyResolved(r, q) ==
    /\ q \in views[r].inflight
    /\ q.awaiting = "json"
    /\ Unusable(q.path)
    /\ q \notin views'[r].inflight

C27_UnusableBodySkipped ==
    /\ [](\A r \in DOMAIN views :
            /\ views[r].pc # "rejected"
            /\ \A i \in DOMAIN views[r].files : ~Unusable(views[r].files[i].filePath))
    /\ [][\A r \in DOMAIN views : \A q \in views[r].inflight :
             BodyResolved(r, q) =>
                /\ views'[r].files = views[r].files
                /\ views'[r].list = views[r].list
                /\ ErrorEntries(console', q.path) = 1
                /\ IF views[r].issued < NumCandidates
                      THEN /\ views'[r].pc = "scan"
                           /\ views'[r].issued = views[r].issued + 1
                           /\ views'[r].lastFetch = Candidates[views[r].issued + 1]
                           /\ views'[r].inflight =
                                 {[path |-> views'[r].lastFetch, awaiting |-> "fetch"]}
                      ELSE /\ views'[r].pc = "returned"
                           /\ views'[r].issued = views[r].issued
                           /\ views'[r].inflight = {}]_vars

\* A run has finished on a host whose first file is an object, whose second
\* is not JSON and whose last is null: it has one record, and the log shows
\* the error line of the last path.
C27_Witness ==
    /\ host[FirstPath] = OkObject(BareData)
    /\ host[BucketPath] = OkInvalid
    /\ host[LastPath] = OkNull
    /\ views # << >>
    /\ views[1].pc = "done"
    /\ Len(views[1].files) = 1
    /\ ErrorEntries(console, LastPath) = 1

====
